---- MODULE Spec2Model ----
(***************************************************************************)
(* A model of the long-running-task helpers of the Valyu JavaScript SDK    *)
(* (src/src/index.ts): the two wait loops (deepresearch.wait and           *)
(* batch.waitForCompletion), the polling "stream" of deepresearch.stream,  *)
(* and the server-sent-event parser of the answer endpoint.                *)
(*                                                                         *)
(* An optional JavaScript value (an option that may be undefined, an       *)
(* optional field of a response) is a sequence of length 0 or 1: <<>> is   *)
(* undefined and <<v>> is the value v.  An undefined string that the code  *)
(* only tests for truthiness is the empty string.                          *)
(***************************************************************************)
EXTENDS Integers, Sequences, FiniteSets, TLC

(***************************************************************************)
(* Bounds of the model.                                                    *)
(***************************************************************************)
\* largest pollInterval a caller supplies
MaxPollOpt == 2
\* largest maxWaitTime a caller supplies
MaxWaitOpt == 3
\* status requests after which the environment lets the next timer fire late
MaxPolls == 3
\* longest time (ms) a status request takes, and a timer fires late by
MaxLatency == 1
\* most agent messages a task produces
MaxMsgs == 2
\* most newline-terminated lines in the body of an answer response
MaxLines == 3
\* most bytes reader.read() hands over, unless it hands over all the rest
MaxRead == 2
\* most fields an options object supplies together
MaxFields == 2
\* longest list of sources a caller supplies alone
MaxSources == 2
\* most fields the options of deepresearch.create supply together
MaxCreateFields == 3
\* most URLs a caller passes, but for the two counts around the documented
\* limit of the async mode
MaxUrls == 12
\* most newline-terminated lines in the body an answer call reads after its
\* own request
MaxAnswerLines == 1

\* the most lines of any kind (data, [DONE], malformed, not data) in a body
MaxBodyLines == 2

(***************************************************************************)
(* Program constants.                                                      *)
(***************************************************************************)
DefaultPollIntervalWait == 5000
DefaultPollIntervalBatch == 10000
DefaultMaxWaitTime == 7200000
BatchDefaultMaxWaitTime == 7200000
StreamPollInterval == 5000

MaxWaitExceeded == "Maximum wait time exceeded"
BatchStatusFailed == "Failed to get batch status"

VARIABLES
  op,               \* the call in progress: "none", "wait", "batchWait", "stream"
  options,          \* the WaitOptions / BatchWaitOptions the caller passed
  callback,         \* the StreamCallback the caller passed
  pollInterval,     \* local const pollInterval of the wait call
  maxWaitTime,      \* local const maxWaitTime of the wait call
  elapsed,          \* Date.now() - startTime of the wait call, at its last reading
  pc,               \* "idle", "request" (awaiting the status request),
                    \* "sleeping" (awaiting the timer), "resolved", "rejected"
  status,           \* <<>> or <<the response of the last status request>>
  result,           \* <<>> or <<the value the call resolved with>>
  error,            \* the message of the Error the call rejected with
  isComplete,       \* local isComplete of the stream call
  lastMessageCount, \* local lastMessageCount of the stream call
  serverMsgs,       \* the task's messages list on the server
  reported,         \* the messages list of the last poll that carried one
  delivered,        \* the values passed to onMessage, in call order
  completeCalls,    \* number of onComplete calls
  errorCalls,       \* number of onError calls
  polls,            \* status requests issued by the call, counted up to MaxPolls
  iter,             \* what the current loop iteration did, from its request on
  mode,             \* the answer call in progress: "none", "fetch", "stream"
  body,             \* the bytes of the response body of the answer request
  pos,              \* how many of them reader.read() has handed over
  apc,              \* "idle", "reading", "done"
  pending,          \* the bytes of an unfinished character the decoder holds
  buffer,           \* local buffer: the text after the last newline seen
  fullContent,      \* local fullContent of fetchAnswer
  searchResults,    \* local searchResults of fetchAnswer
  finalMetadata,    \* local finalMetadata of fetchAnswer
  answer,           \* <<>> or <<the AnswerResponse fetchAnswer resolved with>>
  chunks,           \* the chunks streamAnswer has yielded, in order
  client,           \* <<>> or <<the Valyu object: its baseUrl and headers>>
  thrown,           \* the message of the Error the constructor threw
  call,             \* <<>> or <<the method called and its arguments>>
  cpc,              \* "idle", "awaiting" (axios), "fetching", "reading", "settled"
  sent,             \* the HTTP requests the call has issued, in order
  outcome,          \* <<>> or <<how the HTTP request of the call ended>>
  settled           \* <<>> or <<how the promise of the call settled>>

vars == <<op, options, callback, pollInterval, maxWaitTime, elapsed, pc, status, result,
          error, isComplete, lastMessageCount, serverMsgs, reported, delivered,
          completeCalls, errorCalls, polls, iter, mode, body, pos, apc,
          pending, buffer, fullContent, searchResults, finalMetadata, answer,
          chunks, client, thrown, call, cpc, sent, outcome, settled>>

callVars == <<client, thrown, call, cpc, sent, outcome, settled>>

pollVars == <<op, options, callback, pollInterval, maxWaitTime, elapsed, pc,
              status, result, error, isComplete, lastMessageCount, serverMsgs,
              reported, delivered, completeCalls, errorCalls, polls, iter>>

answerVars == <<mode, body, pos, apc, pending, buffer, fullContent,
                searchResults, finalMetadata, answer, chunks>>

streamVars == <<isComplete, lastMessageCount, serverMsgs, reported, delivered,
                completeCalls, errorCalls>>

(***************************************************************************)
(* Values.                                                                 *)
(***************************************************************************)
Min(a, b) == IF a < b THEN a ELSE b

DeepResearchStatus == {"queued", "running", "completed", "failed", "cancelled"}
BatchStatus == {"open", "processing", "completed", "completed_with_errors",
                "cancelled"}
Msgs == {"m1", "m2"}

\* an entry of iter: e names what happened, ms is the delay handed to
\* setTimeout (a "sleep"), arg is <<the argument of the callback>>
Ev(e) == [e |-> e, ms |-> 0, arg |-> <<>>]
EvSleep(ms) == [e |-> "sleep", ms |-> ms, arg |-> <<>>]
EvCall(e, a) == [e |-> e, ms |-> 0, arg |-> <<a>>]

\* a ?? b instead: only undefined is replaced
OrDefaultNullish(opt, default) == IF opt = <<>> THEN default ELSE opt[1]

\* a || b on an optional number: undefined and 0 are falsy
OrDefault(opt, default) ==
  IF opt = <<>> THEN default
  ELSE IF opt[1] = 0 THEN default
  ELSE opt[1]

\* a || b on strings: "" (and undefined) is falsy
OrString(s, default) == IF s = "" THEN default ELSE s

\* no timeout check at all
TimedOutNever(t, limit) == FALSE

\* >= instead of >
TimedOutAtLimit(t, limit) == t >= limit

\* Date.now() - startTime > maxWaitTime
TimedOut(t, limit) == t > limit

\* the terminal test of _deepresearchWait
IsTerminalWait(s) == s \in {"completed", "failed", "cancelled"}

\* a terminal test that takes "processing" for terminal
IsTerminalBatchEarly(s) == s # "open"

\* the terminal test of _batchWaitForCompletion
IsTerminalBatch(s) == s \in {"completed", "completed_with_errors", "cancelled"}

\* Array.prototype.slice(start) with 0 <= start
Slice(list, start) == SubSeq(list, start + 1, Len(list))

(***************************************************************************)
(* The environment: what a status request answers.                         *)
(***************************************************************************)
Errors == {"", "Request failed with status code 500"}

\* _deepresearchStatus: { success: true, ...response.data } or
\* { success: false, error }
StatusFailure(e) ==
  [success |-> FALSE, status |-> "", error |-> e, messages |-> <<>>,
   progress |-> <<>>]
StatusSuccess(s, e, m, p) ==
  [success |-> TRUE, status |-> s, error |-> e, messages |-> m, progress |-> p]

Progresses == {<<>>, <<[current_step |-> 1, total_steps |-> 2]>>}

\* what the status request of a wait call answers; the wait loop reads only
\* success, status and error
WaitResponses ==
  {StatusFailure(e) : e \in Errors}
    \cup {StatusSuccess(s, "", <<>>, p) : s \in DeepResearchStatus,
                                          p \in Progresses}

\* _batchStatus: { success: true, batch: response.data } or
\* { success: false, error }
BatchResponses ==
  {[success |-> FALSE, error |-> e, batch |-> <<>>] : e \in Errors}
    \cup {[success |-> TRUE, error |-> "", batch |-> <<>>]}
    \cup {[success |-> TRUE, error |-> "", batch |-> <<[status |-> s]>>] :
            s \in BatchStatus}

\* the lists the server's messages list can grow to by appending
Grown(list) ==
  {list} \cup {Append(list, m) : m \in Msgs}
         \cup {Append(Append(list, m), n) : m \in Msgs, n \in Msgs}

GrownBounded(list) == {l \in Grown(list) : Len(l) <= MaxMsgs}

\* what the status request of a stream call answers when the server's list
\* has grown to list
StreamResponses(list) ==
  {StatusFailure(e) : e \in Errors}
    \cup {StatusSuccess(s, "", m, p) :
            s \in DeepResearchStatus, m \in {<<>>, <<list>>}, p \in Progresses}
    \cup {StatusSuccess(s, "task error", m, <<>>) :
            s \in {"failed", "cancelled"}, m \in {<<>>, <<list>>}}

(***************************************************************************)
(* The inputs of a call.                                                   *)
(***************************************************************************)
OptNumbers(max) == {<<>>} \cup {<<n>> : n \in 0..max}

\* WaitOptions and BatchWaitOptions; onProgress is whether one is supplied
WaitOptionSet ==
  [pollInterval : OptNumbers(MaxPollOpt), maxWaitTime : OptNumbers(MaxWaitOpt),
   onProgress : BOOLEAN]

\* StreamCallback: which of the four callbacks are supplied
StreamCallbackSet ==
  [onMessage : BOOLEAN, onProgress : BOOLEAN, onComplete : BOOLEAN,
   onError : BOOLEAN]

NoOptions == [pollInterval |-> <<>>, maxWaitTime |-> <<>>, onProgress |-> FALSE]
NoCallback ==
  [onMessage |-> FALSE, onProgress |-> FALSE, onComplete |-> FALSE,
   onError |-> FALSE]

Init ==
  /\ op = "none"
  /\ options = NoOptions
  /\ callback = NoCallback
  /\ pollInterval = 0
  /\ maxWaitTime = 0
  /\ elapsed = 0
  /\ pc = "idle"
  /\ status = <<>>
  /\ result = <<>>
  /\ error = ""
  /\ isComplete = FALSE
  /\ lastMessageCount = 0
  /\ serverMsgs = <<>>
  /\ reported = <<>>
  /\ delivered = <<>>
  /\ completeCalls = 0
  /\ errorCalls = 0
  /\ polls = 0
  /\ iter = <<>>
  /\ mode = "none"
  /\ body = <<>>
  /\ pos = 0
  /\ apc = "idle"
  /\ pending = <<>>
  /\ buffer = <<>>
  /\ fullContent = <<>>
  /\ searchResults = <<>>
  /\ finalMetadata = <<>>
  /\ answer = <<>>
  /\ chunks = <<>>
  /\ client = <<>>
  /\ thrown = ""
  /\ call = <<>>
  /\ cpc = "idle"
  /\ sent = <<>>
  /\ outcome = <<>>
  /\ settled = <<>>

(***************************************************************************)
(* deepresearch.wait                                                       *)
(***************************************************************************)
\* the call, up to its first await: the locals are set and the first status
\* request is issued
DeepresearchWaitCall ==
  /\ pc = "idle"
  /\ \E o \in WaitOptionSet :
       /\ options' = o
       /\ pollInterval' = OrDefault(o.pollInterval, DefaultPollIntervalWait)
       /\ maxWaitTime' = OrDefault(o.maxWaitTime, DefaultMaxWaitTime)
  /\ op' = "wait"
  /\ elapsed' = 0
  /\ pc' = "request"
  /\ polls' = 1
  /\ iter' = <<Ev("request")>>
  /\ UNCHANGED <<callback, status, result, error>>
  /\ UNCHANGED streamVars
  /\ UNCHANGED answerVars
  /\ UNCHANGED callVars

\* if (options.onProgress) options.onProgress(value): the calls it makes
NotifyProgressNever(supplied, value) == <<>>

NotifyProgress(supplied, value) ==
  IF supplied THEN <<EvCall("onProgress", value)>> ELSE <<>>

\* a loop body that checks the timeout before the terminal states
WaitIterationTimeoutFirst(r, t) ==
  LET progress == NotifyProgress(options.onProgress, r)
  IN IF ~r.success
       THEN /\ pc' = "rejected"
            /\ error' = r.error
            /\ result' = result
            /\ iter' = iter \o <<Ev("throw")>>
       ELSE IF TimedOut(t, maxWaitTime)
         THEN /\ pc' = "rejected"
              /\ error' = MaxWaitExceeded
              /\ result' = result
              /\ iter' = iter \o progress \o <<Ev("throw")>>
         ELSE IF IsTerminalWait(r.status)
           THEN /\ pc' = "resolved"
                /\ result' = <<r>>
                /\ error' = error
                /\ iter' = iter \o progress \o <<Ev("return")>>
           ELSE /\ pc' = "sleeping"
                /\ UNCHANGED <<result, error>>
                /\ iter' = iter \o progress \o <<EvSleep(pollInterval)>>

\* what one iteration does with the response r when the clock reads t at
\* the timeout check: the rest of the loop body of _deepresearchWait
WaitIteration(r, t) ==
  LET progress == NotifyProgress(options.onProgress, r)
  IN IF ~r.success
       THEN /\ pc' = "rejected"
            /\ error' = r.error
            /\ result' = result
            /\ iter' = iter \o <<Ev("throw")>>
       ELSE IF IsTerminalWait(r.status)
         THEN /\ pc' = "resolved"
              /\ result' = <<r>>
              /\ error' = error
              /\ iter' = iter \o progress \o <<Ev("return")>>
         ELSE IF TimedOut(t, maxWaitTime)
           THEN /\ pc' = "rejected"
                /\ error' = MaxWaitExceeded
                /\ result' = result
                /\ iter' = iter \o progress \o <<Ev("throw")>>
           ELSE /\ pc' = "sleeping"
                /\ UNCHANGED <<result, error>>
                /\ iter' = iter \o progress \o <<EvSleep(pollInterval)>>

\* the status request completes after d ms and the loop body runs to its
\* next await, its return or its throw
DeepresearchWaitPoll ==
  /\ op = "wait"
  /\ pc = "request"
  /\ \E r \in WaitResponses, d \in 0..MaxLatency :
       /\ status' = <<r>>
       /\ elapsed' = elapsed + d
       /\ WaitIteration(r, elapsed + d)
  /\ UNCHANGED <<op, options, callback, pollInterval, maxWaitTime, polls>>
  /\ UNCHANGED streamVars
  /\ UNCHANGED answerVars
  /\ UNCHANGED callVars

(***************************************************************************)
(* batch.waitForCompletion                                                 *)
(***************************************************************************)
BatchWaitForCompletionCall ==
  /\ pc = "idle"
  /\ \E o \in WaitOptionSet :
       /\ options' = o
       /\ pollInterval' = OrDefault(o.pollInterval, DefaultPollIntervalBatch)
       /\ maxWaitTime' = OrDefault(o.maxWaitTime, BatchDefaultMaxWaitTime)
  /\ op' = "batchWait"
  /\ elapsed' = 0
  /\ pc' = "request"
  /\ polls' = 1
  /\ iter' = <<Ev("request")>>
  /\ UNCHANGED <<callback, status, result, error>>
  /\ UNCHANGED streamVars
  /\ UNCHANGED answerVars
  /\ UNCHANGED callVars

\* a loop body that sleeps and polls again when the status request failed
BatchWaitIterationRetries(r, t) ==
  IF ~r.success \/ r.batch = <<>>
    THEN /\ pc' = "sleeping"
         /\ UNCHANGED <<result, error>>
         /\ iter' = iter \o <<EvSleep(pollInterval)>>
    ELSE
      LET batch == r.batch[1]
          progress == NotifyProgress(options.onProgress, batch)
      IN IF IsTerminalBatch(batch.status)
           THEN /\ pc' = "resolved"
                /\ result' = <<batch>>
                /\ error' = error
                /\ iter' = iter \o progress \o <<Ev("return")>>
           ELSE IF TimedOut(t, maxWaitTime)
             THEN /\ pc' = "rejected"
                  /\ error' = MaxWaitExceeded
                  /\ result' = result
                  /\ iter' = iter \o progress \o <<Ev("throw")>>
             ELSE /\ pc' = "sleeping"
                  /\ UNCHANGED <<result, error>>
                  /\ iter' = iter \o progress \o <<EvSleep(pollInterval)>>

\* the rest of the loop body of _batchWaitForCompletion
BatchWaitIteration(r, t) ==
  IF ~r.success \/ r.batch = <<>>
    THEN /\ pc' = "rejected"
         /\ error' = OrString(r.error, BatchStatusFailed)
         /\ result' = result
         /\ iter' = iter \o <<Ev("throw")>>
    ELSE
      LET batch == r.batch[1]
          progress == NotifyProgress(options.onProgress, batch)
      IN IF IsTerminalBatch(batch.status)
           THEN /\ pc' = "resolved"
                /\ result' = <<batch>>
                /\ error' = error
                /\ iter' = iter \o progress \o <<Ev("return")>>
           ELSE IF TimedOut(t, maxWaitTime)
             THEN /\ pc' = "rejected"
                  /\ error' = MaxWaitExceeded
                  /\ result' = result
                  /\ iter' = iter \o progress \o <<Ev("throw")>>
             ELSE /\ pc' = "sleeping"
                  /\ UNCHANGED <<result, error>>
                  /\ iter' = iter \o progress \o <<EvSleep(pollInterval)>>

BatchWaitForCompletionPoll ==
  /\ op = "batchWait"
  /\ pc = "request"
  /\ \E r \in BatchResponses, d \in 0..MaxLatency :
       /\ status' = <<r>>
       /\ elapsed' = elapsed + d
       /\ BatchWaitIteration(r, elapsed + d)
  /\ UNCHANGED <<op, options, callback, pollInterval, maxWaitTime, polls>>
  /\ UNCHANGED streamVars
  /\ UNCHANGED answerVars
  /\ UNCHANGED callVars

(***************************************************************************)
(* The timer of a wait call: await new Promise(r => setTimeout(r, ms)).    *)
(* A timer never fires early; it fires on time, late by up to MaxLatency,  *)
(* or as late as the deadline of the call or just past it.  After MaxPolls *)
(* status requests the environment lets it fire only past the deadline,    *)
(* and the clock is not followed past Horizon, which no call that checks   *)
(* its timeout reaches.                                                    *)
(* When it has fired the loop starts over and issues the next request.     *)
(***************************************************************************)
\* the latest reading the model's clock takes
Horizon == maxWaitTime + pollInterval + MaxLatency + 1

FireTimes ==
  {x \in {elapsed + pollInterval + d : d \in 0..MaxLatency}
           \cup {maxWaitTime, maxWaitTime + 1} :
     /\ x >= elapsed + pollInterval
     /\ x <= Horizon
     /\ polls < MaxPolls \/ x > maxWaitTime}

WaitTimerFires ==
  /\ op \in {"wait", "batchWait"}
  /\ pc = "sleeping"
  /\ \E x \in FireTimes : elapsed' = x
  /\ pc' = "request"
  /\ polls' = Min(polls + 1, MaxPolls)
  /\ iter' = <<Ev("request")>>
  /\ UNCHANGED <<op, options, callback, pollInterval, maxWaitTime, status,
                 result, error>>
  /\ UNCHANGED streamVars
  /\ UNCHANGED answerVars
  /\ UNCHANGED callVars

(***************************************************************************)
(* deepresearch.stream                                                     *)
(***************************************************************************)
DeepresearchStreamCall ==
  /\ pc = "idle"
  /\ \E cb \in StreamCallbackSet : callback' = cb
  /\ op' = "stream"
  /\ isComplete' = FALSE
  /\ lastMessageCount' = 0
  /\ pc' = "request"
  /\ polls' = 1
  /\ iter' = <<Ev("request")>>
  /\ UNCHANGED <<options, pollInterval, maxWaitTime, elapsed, status, result,
                 error, serverMsgs, reported, delivered, completeCalls,
                 errorCalls>>
  /\ UNCHANGED answerVars
  /\ UNCHANGED callVars

\* the whole list again, without the slice
NewMessagesAll(messages, count) == messages

\* status.messages.slice(lastMessageCount)
NewMessages(messages, count) == Slice(messages, count)

\* a test that forgets "cancelled"
IsStreamFailureNoCancel(s) == s = "failed"

\* the status values on which the stream calls onError and stops
IsStreamFailure(s) == s \in {"failed", "cancelled"}

\* the calls newMessages.forEach((msg) => callback.onMessage(msg)) makes
MessageCalls(list) == [i \in 1..Len(list) |-> EvCall("onMessage", list[i])]

\* the loop body of _deepresearchStream after the status request answered r.
\* Its catch block is not modelled: _deepresearchStatus never rejects, the
\* timer promise never rejects, and the callbacks are taken not to throw.
StreamIteration(r) ==
  IF ~r.success
    THEN /\ errorCalls' = IF callback.onError THEN errorCalls + 1 ELSE errorCalls
         /\ iter' = iter \o (IF callback.onError
                               THEN <<EvCall("onError", r.error)>> ELSE <<>>)
                         \o <<Ev("return")>>
         /\ pc' = "resolved"
         /\ UNCHANGED <<isComplete, lastMessageCount, reported, delivered,
                        completeCalls>>
    ELSE
      LET progress == IF r.progress # <<>> /\ callback.onProgress
                        THEN <<EvCall("onProgress", r.progress[1])>> ELSE <<>>
          deliver == r.messages # <<>> /\ callback.onMessage
          newMessages == IF deliver
                           THEN NewMessages(r.messages[1], lastMessageCount)
                           ELSE <<>>
          before == iter \o progress \o MessageCalls(newMessages)
      IN /\ lastMessageCount' = IF deliver THEN Len(r.messages[1])
                                           ELSE lastMessageCount
         /\ delivered' = delivered \o newMessages
         /\ reported' = IF r.messages # <<>> THEN r.messages[1] ELSE reported
         /\ IF r.status = "completed"
              THEN /\ completeCalls' = IF callback.onComplete
                                         THEN completeCalls + 1
                                         ELSE completeCalls
                   /\ errorCalls' = errorCalls
                   /\ isComplete' = TRUE
                   /\ pc' = "resolved"
                   /\ iter' = before \o (IF callback.onComplete
                                           THEN <<EvCall("onComplete", r)>>
                                           ELSE <<>>)
                                     \o <<Ev("return")>>
              ELSE IF IsStreamFailure(r.status)
                THEN /\ errorCalls' = IF callback.onError THEN errorCalls + 1
                                                          ELSE errorCalls
                     /\ completeCalls' = completeCalls
                     /\ isComplete' = TRUE
                     /\ pc' = "resolved"
                     /\ iter' = before
                          \o (IF callback.onError
                                THEN <<EvCall("onError",
                                         OrString(r.error, "Task " \o r.status))>>
                                ELSE <<>>)
                          \o <<Ev("return")>>
                ELSE /\ UNCHANGED <<completeCalls, errorCalls, isComplete>>
                     /\ pc' = "sleeping"
                     /\ iter' = before \o <<EvSleep(StreamPollInterval)>>

\* the status request completes; the server's messages list may have grown
DeepresearchStreamPoll ==
  /\ op = "stream"
  /\ pc = "request"
  /\ \E list \in GrownBounded(serverMsgs) :
       /\ serverMsgs' = list
       /\ \E r \in StreamResponses(list) :
            /\ status' = <<r>>
            /\ StreamIteration(r)
  /\ UNCHANGED <<op, options, callback, pollInterval, maxWaitTime, elapsed,
                 result, error, polls>>
  /\ UNCHANGED answerVars
  /\ UNCHANGED callVars

\* the 5000 ms timer of the stream fires and the loop, whose isComplete is
\* still false, issues the next status request
StreamTimerFires ==
  /\ op = "stream"
  /\ pc = "sleeping"
  /\ ~isComplete
  /\ pc' = "request"
  /\ polls' = Min(polls + 1, MaxPolls)
  /\ iter' = <<Ev("request")>>
  /\ UNCHANGED <<op, options, callback, pollInterval, maxWaitTime, elapsed,
                 status, result, error>>
  /\ UNCHANGED streamVars
  /\ UNCHANGED answerVars
  /\ UNCHANGED callVars

(***************************************************************************)
(* The answer endpoint: fetchAnswer and streamAnswer read a body of        *)
(* server-sent events.                                                     *)
(*                                                                         *)
(* A text is a sequence of characters and the body a sequence of bytes.    *)
(* An ASCII character is one byte; the character "é" is the two bytes      *)
(* "C3" "A9".  A JSON document is written as a letter that names its       *)
(* shape, then (for a content chunk) the characters of its delta content,  *)
(* then "}": a text that lacks the closing "}" does not parse.             *)
(*   S}   {"search_results": [r1]}                                         *)
(*   Cx}  {"choices": [{"delta": {"content": "x"}}]}                       *)
(*   F}   {"choices": [{"delta": {}, "finish_reason": "stop"}]}            *)
(*   M}   {"success": true, "tx_id": "tx1"}                                *)
(*   N}   {"success": true, "tx_id": "tx1", "contents": "n"}               *)
(*   E}   {"success": false, "error": "failed"}                            *)
(*   U}   {"success": false, "error": "failed", "search_results": [r2]}    *)
(***************************************************************************)
NL == "\n"
DataPrefix == <<"d", "a", "t", "a", ":", " ">>
DoneText == <<"[", "D", "O", "N", "E", "]">>

\* a parsed document: an absent field is <<>>, an absent string ""
Doc(sr, ch, su, co, er, tx) ==
  [search_results |-> sr, choices |-> ch, success |-> su, contents |-> co,
   error |-> er, tx_id |-> tx]

\* {}, the initial finalMetadata
EmptyDoc == Doc(<<>>, <<>>, <<>>, <<>>, "", "")

Choice(content, finish) == [content |-> content, finish_reason |-> finish]

\* String.prototype.startsWith
StartsWith(text, prefix) ==
  /\ Len(text) >= Len(prefix)
  /\ SubSeq(text, 1, Len(prefix)) = prefix

\* JSON.parse: <<the document>>, or <<>> when it throws
ParseJSON(text) ==
  IF Len(text) < 2 \/ text[Len(text)] # "}" THEN <<>>
  ELSE LET inner == SubSeq(text, 2, Len(text) - 1)
       IN IF text[1] = "C" /\ \A i \in 1..Len(inner) : inner[i] \in {"a", "é", "?"}
            THEN <<Doc(<<>>, <<<<Choice(inner, "")>>>>, <<>>, <<>>, "", "")>>
          ELSE IF inner # <<>> THEN <<>>
          ELSE IF text[1] = "S"
            THEN <<Doc(<<<<"r1">>>>, <<>>, <<>>, <<>>, "", "")>>
          ELSE IF text[1] = "F"
            THEN <<Doc(<<>>, <<<<Choice(<<>>, "stop")>>>>, <<>>, <<>>, "", "")>>
          ELSE IF text[1] = "M"
            THEN <<Doc(<<>>, <<>>, <<TRUE>>, <<>>, "", "tx1")>>
          ELSE IF text[1] = "N"
            THEN <<Doc(<<>>, <<>>, <<TRUE>>, <<"n">>, "", "tx1")>>
          ELSE IF text[1] = "E"
            THEN <<Doc(<<>>, <<>>, <<FALSE>>, <<>>, "failed", "")>>
          ELSE IF text[1] = "U"
            THEN <<Doc(<<<<"r2">>>>, <<>>, <<FALSE>>, <<>>, "failed", "")>>
          ELSE <<>>

\* TextDecoder.decode(value, { stream: true }): the characters of the bytes,
\* after the bytes held over from the last call; the bytes of a character
\* that is not finished are held over.  "?" is the replacement character.
RECURSIVE Utf8(_, _, _)
Utf8(bytes, held, out) ==
  IF bytes = <<>> THEN [text |-> out, pending |-> held]
  ELSE LET b == Head(bytes)
       IN IF held # <<>>
            THEN IF b = "A9" THEN Utf8(Tail(bytes), <<>>, Append(out, "é"))
                             ELSE Utf8(bytes, <<>>, Append(out, "?"))
          ELSE IF b = "C3" THEN Utf8(Tail(bytes), <<b>>, out)
          ELSE IF b = "A9" THEN Utf8(Tail(bytes), <<>>, Append(out, "?"))
          ELSE Utf8(Tail(bytes), <<>>, Append(out, b))

\* a decoder without { stream: true }: an unfinished character at the end
\* of a read is replaced at once
DecodeEachRead(held, bytes) ==
  LET d == Utf8(bytes, <<>>, <<>>)
  IN [text |-> d.text \o (IF d.pending = <<>> THEN <<>> ELSE <<"?">>),
      pending |-> <<>>]

Decode(held, bytes) == Utf8(bytes, held, <<>>)

\* String.prototype.split("\n"): the texts between the newlines
RECURSIVE SplitFrom(_, _, _)
SplitFrom(text, cur, out) ==
  IF text = <<>> THEN Append(out, cur)
  ELSE IF Head(text) = NL THEN SplitFrom(Tail(text), <<>>, Append(out, cur))
  ELSE SplitFrom(Tail(text), Append(cur, Head(text)), out)

Split(text) == SplitFrom(text, <<>>, <<>>)

\* a buffer that is emptied after every read
RestDropped(segments) == <<>>

\* buffer = lines.pop() || "": the text after the last newline
Rest(segments) == segments[Len(segments)]

\* lines without the pop: the text after the last newline is a line too
CompleteLinesAndRest(segments) == segments

\* lines after the pop: the newline-terminated lines
CompleteLines(segments) == SubSeq(segments, 1, Len(segments) - 1)

\* parsed.choices[0]?.delta?.content || ""
DeltaContent(doc) ==
  IF doc.choices[1] = <<>> THEN <<>> ELSE doc.choices[1][1].content

\* parsed.choices[0]?.finish_reason
FinishReason(doc) ==
  IF doc.choices[1] = <<>> THEN "" ELSE doc.choices[1][1].finish_reason

Truthy(optBool) == optBool # <<>> /\ optBool[1]

(***************************************************************************)
(* fetchAnswer                                                             *)
(***************************************************************************)
\* the locals of the read loop of fetchAnswer
FetchState(content, results, metadata) ==
  [fullContent |-> content, searchResults |-> results, finalMetadata |-> metadata]

\* fullContent += content, the wrong way round
AddContentInFront(content, more) == more \o content

\* fullContent += content
AddContent(content, more) == content \o more

\* the body of the for loop of fetchAnswer for one line
FetchLine(st, line) ==
  IF ~StartsWith(line, DataPrefix) THEN st
  ELSE LET dataStr == SubSeq(line, Len(DataPrefix) + 1, Len(line))
       IN IF dataStr = DoneText THEN st
          ELSE CHOOSE next \in
                 {IF parsed = <<>> THEN st
                  ELSE IF parsed[1].search_results # <<>>
                          /\ ~Truthy(parsed[1].success)
                    THEN [st EXCEPT !.searchResults =
                                      @ \o parsed[1].search_results[1]]
                  ELSE IF parsed[1].choices # <<>>
                    THEN [st EXCEPT !.fullContent =
                                      AddContent(@, DeltaContent(parsed[1]))]
                  ELSE IF parsed[1].success # <<>>
                    THEN [st EXCEPT !.finalMetadata = parsed[1]]
                  ELSE st : parsed \in {ParseJSON(dataStr)}} : TRUE

RECURSIVE FetchLines(_, _)
FetchLines(st, lines) ==
  IF lines = <<>> THEN st ELSE FetchLines(FetchLine(st, Head(lines)), Tail(lines))

\* a || b on texts and lists: <<>> (undefined, or the empty string) is falsy
OrText(t, default) == IF t = <<>> THEN default ELSE t

\* a response that succeeds when content was received
BuildResponseOnContent(st) ==
  LET m == st.finalMetadata
  IN IF Truthy(m.success) \/ st.fullContent # <<>>
       THEN [success |-> TRUE,
             tx_id |-> m.tx_id,
             contents |-> OrText(OrText(m.contents, st.fullContent), <<>>),
             search_results |->
               IF m.search_results # <<>> THEN m.search_results[1]
                                          ELSE st.searchResults,
             error |-> ""]
       ELSE [success |-> FALSE, tx_id |-> "", contents |-> <<>>,
             search_results |-> <<>>,
             error |-> OrString(m.error, "Unknown error occurred")]

\* the response fetchAnswer builds when the body has ended
BuildResponse(st) ==
  LET m == st.finalMetadata
  IN IF Truthy(m.success)
       THEN [success |-> TRUE,
             tx_id |-> m.tx_id,
             contents |-> OrText(OrText(m.contents, st.fullContent), <<>>),
             search_results |->
               IF m.search_results # <<>> THEN m.search_results[1]
                                          ELSE st.searchResults,
             error |-> ""]
       ELSE [success |-> FALSE, tx_id |-> "", contents |-> <<>>,
             search_results |-> <<>>,
             error |-> OrString(m.error, "Unknown error occurred")]

(***************************************************************************)
(* streamAnswer                                                            *)
(***************************************************************************)
Chunk(type, content, finish, results, contents) ==
  [type |-> type, content |-> content, finish_reason |-> finish,
   search_results |-> results, contents |-> contents]

\* the chunks the body of the for loop of streamAnswer yields for one line
StreamLine(line) ==
  IF ~StartsWith(line, DataPrefix) THEN <<>>
  ELSE LET dataStr == SubSeq(line, Len(DataPrefix) + 1, Len(line))
           parsed == ParseJSON(dataStr)
       IN IF dataStr = DoneText THEN <<Chunk("done", <<>>, "", <<>>, <<>>)>>
          ELSE IF parsed = <<>> THEN <<>>
          ELSE LET doc == parsed[1]
               IN IF doc.search_results # <<>> /\ doc.success = <<>>
                    THEN <<Chunk("search_results", <<>>, "",
                                 doc.search_results, <<>>)>>
                  ELSE IF doc.choices # <<>>
                    THEN IF DeltaContent(doc) # <<>> \/ FinishReason(doc) # ""
                           THEN <<Chunk("content", DeltaContent(doc),
                                        FinishReason(doc), <<>>, <<>>)>>
                           ELSE <<>>
                  ELSE IF doc.success # <<>>
                    THEN <<Chunk("metadata", <<>>, "", doc.search_results,
                                 doc.contents)>>
                  ELSE <<>>

RECURSIVE StreamLines(_)
StreamLines(lines) ==
  IF lines = <<>> THEN <<>>
  ELSE StreamLine(Head(lines)) \o StreamLines(Tail(lines))

(***************************************************************************)
(* The bodies the server sends, and the calls.                             *)
(***************************************************************************)
Data(payload) == DataPrefix \o payload

\* the lines of a body: two content chunks, search results, and the three
\* kinds of final metadata
LineSet ==
  {Data(<<"C", "a", "}">>), Data(<<"C", "C3", "A9", "}">>), Data(<<"S", "}">>),
   Data(<<"M", "}">>), Data(<<"N", "}">>), Data(<<"E", "}">>)}

\* what may follow the last newline of a body: nothing, or a line that the
\* server did not terminate
TailSet == {<<>>, Data(<<"M", "}">>)}

RECURSIVE BodiesOf(_)
BodiesOf(n) ==
  IF n = 0 THEN {<<>>}
  ELSE LET shorter == BodiesOf(n - 1)
       IN shorter \cup {Append(l, NL) \o b : l \in LineSet, b \in shorter}

Bodies == {b \o t : b \in BodiesOf(MaxLines), t \in TailSet}

\* fetch() has answered with an ok response: the read loop starts
AnswerCall ==
  /\ apc = "idle"
  /\ pc = "idle"
  /\ mode' \in {"fetch", "stream"}
  /\ body' \in Bodies
  /\ pos' = 0
  /\ apc' = "reading"
  /\ pending' = <<>>
  /\ buffer' = <<>>
  /\ fullContent' = <<>>
  /\ searchResults' = <<>>
  /\ finalMetadata' = EmptyDoc
  /\ answer' = <<>>
  /\ chunks' = <<>>
  /\ UNCHANGED pollVars
  /\ UNCHANGED callVars

\* the lines of any kind a body may hold: the data lines of every shape,
\* a payload that is not JSON, the [DONE] line, and a line that is no data
\* line
AnyLineSet ==
  LineSet \cup {Data(<<"U", "}">>), Data(<<"F", "}">>), Data(<<"M">>),
                Data(DoneText), <<":", "k">>}

RECURSIVE BodiesFrom(_, _)
BodiesFrom(lines, n) ==
  IF n = 0 THEN {<<>>}
  ELSE LET shorter == BodiesFrom(lines, n - 1)
       IN shorter \cup {Append(l, NL) \o b : l \in lines, b \in shorter}

AnyBodies == {b \o t : b \in BodiesFrom(AnyLineSet, MaxBodyLines), t \in TailSet}

\* fetch() has answered with an ok response whose body holds lines of any
\* kind: the read loop starts
AnswerCallAnyBody ==
  /\ apc = "idle"
  /\ pc = "idle"
  /\ mode' \in {"fetch", "stream"}
  /\ body' \in AnyBodies
  /\ pos' = 0
  /\ apc' = "reading"
  /\ pending' = <<>>
  /\ buffer' = <<>>
  /\ fullContent' = <<>>
  /\ searchResults' = <<>>
  /\ finalMetadata' = EmptyDoc
  /\ answer' = <<>>
  /\ chunks' = <<>>
  /\ UNCHANGED pollVars
  /\ UNCHANGED callVars

\* how many of the remaining bytes one read may hand over
ReadSizes(remaining) == {n \in 1..remaining : n <= MaxRead \/ n = remaining}

\* reader.read() hands over the next n bytes of the body, and the loop body
\* runs on them
AnswerRead ==
  /\ apc = "reading"
  /\ pos < Len(body)
  /\ \E n \in ReadSizes(Len(body) - pos) :
       \E decoded \in {Decode(pending, SubSeq(body, pos + 1, pos + n))} :
         \E segments \in {Split(buffer \o decoded.text)} :
           /\ pos' = pos + n
           /\ pending' = decoded.pending
           /\ buffer' = Rest(segments)
           /\ IF mode = "fetch"
                THEN \E st \in {FetchLines(FetchState(fullContent, searchResults,
                                                      finalMetadata),
                                           CompleteLines(segments))} :
                       /\ fullContent' = st.fullContent
                       /\ searchResults' = st.searchResults
                       /\ finalMetadata' = st.finalMetadata
                       /\ chunks' = chunks
                ELSE /\ chunks' = chunks \o StreamLines(CompleteLines(segments))
                     /\ UNCHANGED <<fullContent, searchResults, finalMetadata>>
  /\ UNCHANGED <<mode, body, apc, answer>>
  /\ UNCHANGED pollVars
  /\ UNCHANGED callVars

\* reader.read() reports done: fetchAnswer builds its response, the
\* generator of streamAnswer returns
AnswerDone ==
  /\ apc = "reading"
  /\ pos = Len(body)
  /\ apc' = "done"
  /\ answer' = IF mode = "fetch"
                 THEN <<BuildResponse(FetchState(fullContent, searchResults,
                                                 finalMetadata))>>
                 ELSE answer
  /\ UNCHANGED <<mode, body, pos, pending, buffer, fullContent, searchResults,
                 finalMetadata, chunks>>
  /\ UNCHANGED pollVars
  /\ UNCHANGED callVars

AnswerNext == AnswerCall \/ AnswerRead \/ AnswerDone

\* an answer call whose request was answered with an ok response
AnswerSpec == Init /\ [][AnswerNext]_vars

\* an answer call whose response holds lines of any kind
AnswerAnyBodySpec ==
  Init /\ [][AnswerCallAnyBody \/ AnswerRead \/ AnswerDone]_vars

\* the texts of the errors the client throws, returns and yields
ErrorMessages ==
  [ApiKeyNotSet |-> "VALYU_API_KEY is not set",
   InvalidSearchType |->
     "Invalid searchType provided. Must be one of: all, web, proprietary, news",
   InvalidStartDate |-> "Invalid startDate format. Must be YYYY-MM-DD",
   InvalidEndDate |-> "Invalid endDate format. Must be YYYY-MM-DD",
   MaxNumResultsRange |-> "maxNumResults must be between 1 and 100",
   InvalidIncludedSources |->
     "Invalid includedSources format. Invalid sources: ",
   InvalidExcludeSources |->
     "Invalid excludeSources format. Invalid sources: ",
   SourcesMustBe |->
     ". Sources must be valid URLs, domains (with optional paths), or dataset identifiers in 'provider/dataset' format.",
   UrlsEmpty |-> "urls array cannot be empty",
   TooManyUrls |-> "Maximum 10 URLs allowed per request",
   TooManyUrlsAsync |-> "Maximum 50 URLs allowed per request",
   BadExtractEffort |->
     "extractEffort must be 'normal', 'high', or 'auto'",
   BadResponseLength |->
     "responseLength must be 'short', 'medium', 'large', 'max', or a number",
   ResponseLengthPositive |-> "responseLength number must be positive",
   RequestFailed |-> "Request failed",
   QueryRequired |-> "query is required and cannot be empty",
   InstructionRequired |-> "instruction is required and cannot be empty",
   TasksEmpty |-> "tasks array cannot be empty",
   TooManyTasks |-> "Maximum 100 tasks allowed per request",
   TaskNeedsQuery |-> "Each task must have a 'query' field",
   QueryNonEmpty |-> "Query is required and must be a non-empty string",
   SystemInstructionsEmpty |->
     "systemInstructions cannot be empty when provided",
   SystemInstructionsLong |->
     "systemInstructions must be 2000 characters or less",
   DataMaxPricePositive |-> "dataMaxPrice must be a positive number",
   StartBeforeEnd |-> "startDate must be before endDate",
   InvalidExcludedSources |->
     "Invalid excludedSources format. Invalid sources: ",
   NoResponseBody |-> "No response body",
   StreamFailed |-> "Stream failed",
   FetchFailed |-> "Request failed",
   TypeErrorMessage |-> "Cannot read properties of undefined"]

(***************************************************************************)
(* The client: the constructor and the methods that issue one HTTP request *)
(* through axios and resolve with its outcome.                             *)
(*                                                                         *)
(* A string the code takes apart (a date, a source, a query) is a sequence *)
(* of one-character strings; a string it only passes on is a TLA+ string.  *)
(***************************************************************************)
DefaultBaseUrl == "https://api.valyu.ai/v1"

\* the apiKey argument and process.env.VALYU_API_KEY: undefined, "" or a key
ApiKeyArgs == {<<>>, <<"">>, <<"k1">>}
EnvKeys == {<<>>, <<"">>, <<"k2">>}
BaseUrlArgs == {<<>>, <<"http://localhost:8000">>}

\* !s on an optional string: undefined and "" are falsy
Falsy(s) == s = <<>> \/ s[1] = ""

\* this.headers
Headers(key) == ("Content-Type" :> "application/json") @@ ("x-api-key" :> key)

\* a constructor that takes the environment's key first
ResolveKeyEnvFirst(apiKey, envKey) == IF Falsy(envKey) THEN apiKey ELSE envKey

\* the value of apiKey after the first if of the constructor
ResolveKey(apiKey, envKey) == IF Falsy(apiKey) THEN envKey ELSE apiKey

\* new Valyu(apiKey, baseUrl) with process.env.VALYU_API_KEY = envKey
Construct ==
  /\ client = <<>>
  /\ cpc = "idle"
  /\ \E apiKey \in ApiKeyArgs, baseUrl \in BaseUrlArgs, envKey \in EnvKeys :
       /\ call' = <<[method |-> "constructor", apiKey |-> apiKey,
                     baseUrl |-> baseUrl, env |-> envKey]>>
       /\ \E key \in {ResolveKey(apiKey, envKey)} :
            IF Falsy(key)
              THEN /\ thrown' = ErrorMessages.ApiKeyNotSet
                   /\ client' = <<>>
              ELSE /\ thrown' = ""
                   /\ client' =
                        <<[baseUrl |-> IF baseUrl = <<>> THEN DefaultBaseUrl
                                       ELSE baseUrl[1],
                           headers |-> Headers(key[1])]>>
  /\ UNCHANGED <<cpc, sent, outcome, settled>>
  /\ UNCHANGED pollVars
  /\ UNCHANGED answerVars

(***************************************************************************)
(* axios: a request resolves with a 2xx response and rejects otherwise     *)
(* (the default validateStatus), with an error that carries the response   *)
(* if there was one.                                                       *)
(***************************************************************************)
\* response.data of a JSON endpoint: undefined (an empty body) or an object
\* of which the methods read success and error
ServerData ==
  {<<>>,
   <<[success |-> <<>>, error |-> <<>>]>>,
   <<[success |-> <<TRUE>>, error |-> <<>>]>>,
   <<[success |-> <<FALSE>>, error |-> <<"Insufficient credits">>]>>}

AxiosResponse(st, data) == [status |-> st, data |-> data]

AxiosReturned(data) ==
  [threw |-> FALSE, response |-> <<AxiosResponse(200, data)>>, message |-> ""]

AxiosThrew(response, message) ==
  [threw |-> TRUE, response |-> response, message |-> message]

\* how the request of a call can end
AxiosOutcomes ==
  {AxiosReturned(d) : d \in ServerData}
    \cup {AxiosThrew(<<>>, "Network Error"),
          AxiosThrew(<<AxiosResponse(500, <<>>)>>,
                     "Request failed with status code 500"),
          AxiosThrew(<<AxiosResponse(401, <<[success |-> <<>>,
                                             error |-> <<"Invalid API key">>]>>)>>,
                     "Request failed with status code 401"),
          AxiosThrew(<<AxiosResponse(422, <<[success |-> <<FALSE>>,
                                             error |-> <<"">>]>>)>>,
                     "Request failed with status code 422")}

\* an HTTP request as the call issued it
Request(verb, path, payload) ==
  [verb |-> verb, url |-> <<client[1].baseUrl, path>>, payload |-> payload,
   headers |-> client[1].headers]

\* response.data?.error
DataError(response) ==
  IF response.data = <<>> THEN <<>> ELSE response.data[1].error

\* e.response?.data?.error || e.message
CaughtError(e) ==
  LET er == IF e.response = <<>> THEN <<>> ELSE DataError(e.response[1])
  IN IF Falsy(er) THEN <<e.message>> ELSE er

\* an error message: a text, and for the messages that list sources the
\* joined list and the text after it
Message(text) == [text |-> text, sources |-> <<>>, tail |-> ""]

\* how the promise of a call settled
Resolved(value) == [kind |-> "resolved", value |-> value]
Rejected(message) == [kind |-> "rejected", value |-> message]

\* an optional string as an optional message
ErrorText(s) == IF s = <<>> THEN <<>> ELSE <<Message(s[1])>>

\* { success: false, error }; success is <<>> where a response lacks it
Failure(er) == [success |-> <<FALSE>>, error |-> ErrorText(er), data |-> <<>>]

\* a call that validates its arguments after it has issued its request
SettleAfterRequest(c, value) ==
  /\ call' = <<c>>
  /\ sent' = <<[verb |-> "POST"]>>
  /\ cpc' = "settled"
  /\ outcome' = <<>>
  /\ settled' = <<Resolved(value)>>

\* a call settles before any request, or issues its request and waits
Settle(c, value) ==
  /\ call' = <<c>>
  /\ sent' = <<>>
  /\ cpc' = "settled"
  /\ outcome' = <<>>
  /\ settled' = <<Resolved(value)>>

Send(c, request) ==
  /\ call' = <<c>>
  /\ sent' = <<request>>
  /\ cpc' = "awaiting"
  /\ outcome' = <<>>
  /\ settled' = <<>>


(***************************************************************************)
(* The methods that validate nothing: one request, one response.           *)
(***************************************************************************)
\* the method, its request and what it makes of response.data:
\* "spread" is { success: true, ...response.data }, "wrap" puts the data in
\* one field, "member" reads a field of the data, "buffer" is Buffer.from
SimpleMethods ==
  {[method |-> "deepresearch.status", verb |-> "GET",
    path |-> "/deepresearch/tasks/t1/status", shape |-> "spread"],
   [method |-> "deepresearch.list", verb |-> "GET",
    path |-> "/deepresearch/list?limit=10", shape |-> "wrap"],
   [method |-> "deepresearch.cancel", verb |-> "POST",
    path |-> "/deepresearch/tasks/t1/cancel", shape |-> "spread"],
   [method |-> "deepresearch.delete", verb |-> "DELETE",
    path |-> "/deepresearch/tasks/t1/delete", shape |-> "spread"],
   [method |-> "deepresearch.togglePublic", verb |-> "POST",
    path |-> "/deepresearch/tasks/t1/public", shape |-> "spread"],
   [method |-> "batch.create", verb |-> "POST",
    path |-> "/deepresearch/batches", shape |-> "spread"],
   [method |-> "batch.status", verb |-> "GET",
    path |-> "/deepresearch/batches/b1", shape |-> "wrap"],
   [method |-> "batch.listTasks", verb |-> "GET",
    path |-> "/deepresearch/batches/b1/tasks", shape |-> "spread"],
   [method |-> "batch.cancel", verb |-> "POST",
    path |-> "/deepresearch/batches/b1/cancel", shape |-> "spread"],
   [method |-> "batch.list", verb |-> "GET",
    path |-> "/deepresearch/batches", shape |-> "wrap"],
   [method |-> "datasources.list", verb |-> "GET",
    path |-> "/datasources", shape |-> "member"],
   [method |-> "datasources.categories", verb |-> "GET",
    path |-> "/datasources/categories", shape |-> "member"]}

\* a catch block that lets the error through
CaughtRethrown(e) == Rejected(e.message)

\* catch (e) { return { success: false, error: ... } }
Caught(e) == Resolved(Failure(CaughtError(e)))

\* { success: true, ...response.data }
Spread(data) ==
  IF data = <<>> THEN [success |-> <<TRUE>>, error |-> <<>>, data |-> data]
  ELSE [success |-> IF data[1].success = <<>> THEN <<TRUE>>
                    ELSE data[1].success,
        error |-> ErrorText(data[1].error), data |-> data]

\* return response.data
PassedOn(data) ==
  IF data = <<>> THEN [success |-> <<>>, error |-> <<>>, data |-> data]
  ELSE [success |-> data[1].success, error |-> ErrorText(data[1].error),
        data |-> data]

\* the try block of a method after its request returned
Returned(shape, data) ==
  CASE shape = "spread" -> Resolved(Spread(data))
    [] shape = "wrap" ->
         Resolved([success |-> <<TRUE>>, error |-> <<>>, data |-> data])
    [] OTHER ->
         \* response.data.datasources, Buffer.from(response.data)
         IF data = <<>> THEN Caught(AxiosThrew(<<>>, ErrorMessages.TypeErrorMessage))
         ELSE Resolved([success |-> <<TRUE>>, error |-> <<>>, data |-> data])

\* the method from its call on, up to its await of the request
SimpleCall ==
  /\ client # <<>>
  /\ cpc = "idle"
  /\ \E m \in SimpleMethods : Send(m, Request(m.verb, m.path, <<>>))
  /\ UNCHANGED <<client, thrown>>
  /\ UNCHANGED pollVars
  /\ UNCHANGED answerVars

\* the method from the end of its request on
SimpleCompletes(m, o) ==
  IF o.threw
    THEN \* an arraybuffer response has no error field
         IF m.shape = "buffer" THEN Caught(AxiosThrew(<<>>, o.message))
         ELSE Caught(o)
    ELSE Returned(m.shape, o.response[1].data)

(***************************************************************************)
(* Text.                                                                   *)
(***************************************************************************)
Digits == {"0", "1", "2", "3", "4", "5", "6", "7", "8", "9"}
LowerSeq == <<"a", "b", "c", "d", "e", "f", "g", "h", "i", "j", "k", "l", "m", "n", "o", "p", "q", "r", "s", "t", "u", "v", "w", "x", "y", "z">>
UpperSeq == <<"A", "B", "C", "D", "E", "F", "G", "H", "I", "J", "K", "L", "M", "N", "O", "P", "Q", "R", "S", "T", "U", "V", "W", "X", "Y", "Z">>
Letters == {LowerSeq[i] : i \in 1..Len(LowerSeq)}
             \cup {UpperSeq[i] : i \in 1..Len(UpperSeq)}
Alnum == Digits \cup Letters
DigitValue ==
  ("0" :> 0) @@ ("1" :> 1) @@ ("2" :> 2) @@ ("3" :> 3) @@ ("4" :> 4)
    @@ ("5" :> 5) @@ ("6" :> 6) @@ ("7" :> 7) @@ ("8" :> 8) @@ ("9" :> 9)

\* String.prototype.toLowerCase
ToLowerCase(text) ==
  [i \in 1..Len(text) |->
     IF \E k \in 1..Len(UpperSeq) : UpperSeq[k] = text[i]
       THEN LowerSeq[CHOOSE k \in 1..Len(UpperSeq) : UpperSeq[k] = text[i]]
       ELSE text[i]]

\* String.prototype.trim, of a text whose only white space is " "
RECURSIVE TrimStart(_)
TrimStart(text) ==
  IF text # <<>> /\ Head(text) = " " THEN TrimStart(Tail(text)) ELSE text

RECURSIVE TrimEnd(_)
TrimEnd(text) ==
  IF text # <<>> /\ text[Len(text)] = " "
    THEN TrimEnd(SubSeq(text, 1, Len(text) - 1))
    ELSE text

Trim(text) == TrimEnd(TrimStart(text))

\* String.prototype.split(sep) with a one-character sep
RECURSIVE SplitAt(_, _, _, _)
SplitAt(text, sep, cur, out) ==
  IF text = <<>> THEN Append(out, cur)
  ELSE IF Head(text) = sep THEN SplitAt(Tail(text), sep, <<>>, Append(out, cur))
  ELSE SplitAt(Tail(text), sep, Append(cur, Head(text)), out)

SplitOn(text, sep) == SplitAt(text, sep, <<>>, <<>>)

\* Array.prototype.join(", ")
RECURSIVE Join(_)
Join(list) ==
  IF list = <<>> THEN <<>>
  ELSE IF Len(list) = 1 THEN list[1]
  ELSE list[1] \o <<",", " ">> \o Join(Tail(list))

\* the position of the first c in text, 0 if there is none
IndexOf(text, c) ==
  IF \E i \in 1..Len(text) : text[i] = c
    THEN CHOOSE i \in 1..Len(text) :
           text[i] = c /\ \A j \in 1..(i - 1) : text[j] # c
    ELSE 0

(***************************************************************************)
(* A JavaScript number that may be NaN.                                    *)
(***************************************************************************)
Num(n) == [nan |-> FALSE, n |-> n]
NaN == [nan |-> TRUE, n |-> 0]

\* a < b and a > b: false when either is NaN
LessThan(a, b) == ~a.nan /\ ~b.nan /\ a.n < b.n
GreaterThan(a, b) == LessThan(b, a)

\* a <= b: false when either is NaN
LessOrEqual(a, b) == ~a.nan /\ ~b.nan /\ a.n <= b.n

(***************************************************************************)
(* The validators.                                                         *)
(***************************************************************************)
\* /^\d{4}-\d{2}-\d{2}$/
DateRegex(date) ==
  /\ Len(date) = 10
  /\ \A i \in {1, 2, 3, 4, 6, 7, 9, 10} : date[i] \in Digits
  /\ date[5] = "-"
  /\ date[8] = "-"

TwoDigits(date, i) == 10 * DigitValue[date[i]] + DigitValue[date[i + 1]]

\* !isNaN(new Date(date).getTime()) of a text of that form: the month is
\* 01..12 and the day 01..31 (the inputs have no day past the end of its
\* month, where engines differ)
DateParses(date) ==
  /\ TwoDigits(date, 6) \in 1..12
  /\ TwoDigits(date, 9) \in 1..31

\* new Date(date) of a valid date, as a number that orders as the time does
DateValue(date) ==
  (1000 * DigitValue[date[1]] + 100 * DigitValue[date[2]] + TwoDigits(date, 3))
      * 10000
    + TwoDigits(date, 6) * 100 + TwoDigits(date, 9)

validateDateFormat(date) == DateRegex(date) /\ DateParses(date)

SpecialSchemes == {<<"h", "t", "t", "p">>, <<"h", "t", "t", "p", "s">>, <<"f", "t", "p">>, <<"w", "s">>, <<"w", "s", "s">>, <<"f", "i", "l", "e">>}
SchemeChars == Alnum \cup {"+", "-", "."}
HostChars == Alnum \cup {"-", ".", ":"}

\* the text after the two slashes of a special URL, up to its path
HostOf(rest) ==
  LET after == IF Len(rest) >= 2 /\ rest[1] = "/" /\ rest[2] = "/"
                 THEN SubSeq(rest, 3, Len(rest)) ELSE rest
      slash == IndexOf(after, "/")
  IN IF slash = 0 THEN after ELSE SubSeq(after, 1, slash - 1)

\* new URL(url) does not throw: the text has a scheme, and if the scheme is a
\* special one a host follows it (the URL parser, as far as the inputs need)
validateUrl(url) ==
  LET colon == IndexOf(url, ":")
      scheme == SubSeq(url, 1, colon - 1)
      rest == SubSeq(url, colon + 1, Len(url))
  IN /\ colon > 1
     /\ url[1] \in Letters
     /\ \A i \in 1..Len(scheme) : scheme[i] \in SchemeChars
     /\ ToLowerCase(scheme) \in SpecialSchemes
          => /\ HostOf(rest) # <<>>
             /\ \A i \in 1..Len(HostOf(rest)) : HostOf(rest)[i] \in HostChars

\* [a-zA-Z0-9]([a-zA-Z0-9-]{0,61}[a-zA-Z0-9])?
IsLabel(label) ==
  /\ Len(label) \in 1..63
  /\ label[1] \in Alnum
  /\ label[Len(label)] \in Alnum
  /\ \A i \in 1..Len(label) : label[i] \in Alnum \cup {"-"}

\* domainRegex.test(domain): two or more labels with dots between them, then
\* nothing or a slash and at least one character
validateDomain(domain) ==
  LET slash == IndexOf(domain, "/")
      host == IF slash = 0 THEN domain ELSE SubSeq(domain, 1, slash - 1)
      labels == SplitOn(host, ".")
  IN /\ slash # 0 => slash < Len(domain)
     /\ Len(labels) >= 2
     /\ \A i \in 1..Len(labels) : IsLabel(labels[i])

\* /^[a-zA-Z0-9_-]+$/
IsName(part) ==
  /\ part # <<>>
  /\ \A i \in 1..Len(part) : part[i] \in Alnum \cup {"_", "-"}

validateDatasetId(datasetId) ==
  LET parts == SplitOn(datasetId, "/")
  IN IF Len(parts) # 2 THEN FALSE
     ELSE /\ IsName(parts[1])
          /\ IsName(parts[2])
          /\ Len(parts[1]) > 0
          /\ Len(parts[2]) > 0

validateSource(source) ==
  IF validateUrl(source) THEN TRUE
  ELSE IF validateDomain(source) THEN TRUE
  ELSE IF validateDatasetId(source) THEN TRUE
  ELSE FALSE

\* a validateSources that stops at the first invalid source
RECURSIVE InvalidSourcesFirstOnly(_)
InvalidSourcesFirstOnly(sources) ==
  IF sources = <<>> THEN <<>>
  ELSE IF ~validateSource(Head(sources)) THEN <<Head(sources)>>
  ELSE InvalidSourcesFirstOnly(Tail(sources))

\* the loop of validateSources
RECURSIVE InvalidSources(_)
InvalidSources(sources) ==
  IF sources = <<>> THEN <<>>
  ELSE (IF ~validateSource(Head(sources)) THEN <<Head(sources)>> ELSE <<>>)
         \o InvalidSources(Tail(sources))

validateSources(sources) ==
  LET invalidSources == InvalidSources(sources)
  IN [valid |-> Len(invalidSources) = 0, invalidSources |-> invalidSources]

(***************************************************************************)
(* The arguments of a call.                                                *)
(***************************************************************************)
\* the objects that supply at most n of the fields of values, a record of
\* the sets of values a field takes; a field not supplied is <<>>
RECURSIVE OptionsUpTo(_, _)
OptionsUpTo(values, n) ==
  IF n = 0 THEN {[f \in DOMAIN values |-> <<>>]}
  ELSE LET fewer == OptionsUpTo(values, n - 1)
       IN fewer \cup UNION {UNION {{[o EXCEPT ![f] = <<v>>] : v \in values[f]} :
                                     f \in DOMAIN values} : o \in fewer}

\* the objects that supply field f only
OptionsOnly(values, f, set) ==
  {[[g \in DOMAIN values |-> <<>>] EXCEPT ![f] = <<v>>] : v \in set}

\* the sources the validators are tried on
SourceSet ==
  {<<"h", "t", "t", "p", "s", ":", "/", "/", "a", ".", "i", "o">>, <<"x", ":", "y">>, <<"h", "t", "t", "p", ":", "/", "/">>, <<"a", ".", "i", "o">>, <<"a", "-", "b", ".", "i", "o", "/", "p">>, <<"a", ".", "i", "o", "/">>,
   <<"v", "/", "d", "_", "1">>, <<"v", "/", "d", "/", "x">>, <<"v", "/", "d", " ", "d">>, <<"n", "o">>, <<>>}

RECURSIVE SourceListsOf(_, _)
SourceListsOf(set, n) ==
  IF n = 0 THEN {<<>>}
  ELSE LET shorter == SourceListsOf(set, n - 1)
       IN shorter \cup {Append(l, s) : l \in shorter, s \in set}

\* the lists of sources a caller supplies alone
SourceLists == SourceListsOf(SourceSet, MaxSources)

\* the lists of sources a caller supplies together with other fields
SomeSourceLists == {<<>>, <<<<"a", ".", "i", "o">>>>, <<<<"n", "o">>, <<"a", ".", "i", "o">>, <<"v", "/", "d", "/", "x">>>>}

\* the dates a caller supplies
DateTexts ==
  {<<"2", "0", "2", "4", "-", "0", "1", "-", "1", "5">>, <<"2", "0", "2", "4", "-", "0", "6", "-", "3", "0">>, <<"2", "0", "2", "4", "-", "1", "3", "-", "0", "1">>, <<"1", "5", "/", "0", "1", "/", "2", "0", "2", "4">>, <<>>}

\* the queries a caller supplies
QueryTexts == {<<>>, <<" ">>, <<"q">>, <<" ", "q", " ">>}

Web == <<"w", "e", "b">>
Proprietary == <<"p", "r", "o", "p", "r", "i", "e", "t", "a", "r", "y">>
All == <<"a", "l", "l">>
News == <<"n", "e", "w", "s">>

\* the values of searchType a caller supplies
SearchTypeTexts == {Web, <<"A", "L", "L">>, <<"N", "e", "w", "s">>, <<"P", "r", "o", "p", "r", "i", "e", "t", "a", "r", "y">>, <<"i", "m", "a", "g", "e", "s">>, <<>>}

(***************************************************************************)
(* search                                                                  *)
(***************************************************************************)
DefaultMaxNumResults == 10
MinNumResults == 1
MaxNumResults == 100


\* the message of an error that lists sources
SourcesMessage(text, invalidSources, tail) ==
  [text |-> text, sources |-> Join(invalidSources), tail |-> tail]

SearchValues ==
  [searchType |-> SearchTypeTexts,
   maxNumResults |-> {Num(0), Num(1), Num(100), Num(101), NaN},
   maxPrice |-> {Num(30)},
   isToolCall |-> {FALSE},
   relevanceThreshold |-> {"0.7"},
   includedSources |-> SomeSourceLists,
   excludeSources |-> SomeSourceLists,
   category |-> {"news"},
   startDate |-> DateTexts,
   endDate |-> DateTexts,
   countryCode |-> {"US"},
   responseLength |-> {"short"},
   fastMode |-> {TRUE},
   urlOnly |-> {TRUE}]

\* the SearchOptions a caller passes
SearchOptionSet ==
  OptionsUpTo(SearchValues, MaxFields)
    \cup OptionsOnly(SearchValues, "includedSources", SourceLists)
    \cup OptionsOnly(SearchValues, "excludeSources", SourceLists)

\* the object search returns when it fails
SearchFailure(query, er) ==
  [success |-> <<FALSE>>, error |-> er, tx_id |-> "null", query |-> query,
   results |-> <<>>, results_by_source |-> [web |-> 0, proprietary |-> 0],
   total_deduction_dollars |-> 0, total_characters |-> 0]

\* options.searchType?.toLowerCase()
ProvidedSearchType(o) ==
  IF o.searchType = <<>> THEN <<>> ELSE <<ToLowerCase(o.searchType[1])>>

IsSearchType(provided) ==
  provided # <<>> /\ provided[1] \in {Web, Proprietary, All, News}

\* a ?? b
OrElse(opt, default) == IF opt = <<>> THEN default ELSE opt[1]

\* maxNumResults < 1 || maxNumResults > 100
OutOfRange(n) ==
  LessThan(n, Num(MinNumResults)) \/ GreaterThan(n, Num(MaxNumResults))

\* the validation of search: <<>> or <<the message of the error>>
SearchValidation(o) ==
  IF ~IsSearchType(ProvidedSearchType(o)) /\ o.searchType # <<>>
    THEN <<Message(ErrorMessages.InvalidSearchType)>>
  ELSE IF ~Falsy(o.startDate) /\ ~validateDateFormat(o.startDate[1])
    THEN <<Message(ErrorMessages.InvalidStartDate)>>
  ELSE IF ~Falsy(o.endDate) /\ ~validateDateFormat(o.endDate[1])
    THEN <<Message(ErrorMessages.InvalidEndDate)>>
  ELSE IF OutOfRange(OrElse(o.maxNumResults, Num(DefaultMaxNumResults)))
    THEN <<Message(ErrorMessages.MaxNumResultsRange)>>
  ELSE IF o.includedSources # <<>>
            /\ ~validateSources(o.includedSources[1]).valid
    THEN <<SourcesMessage(ErrorMessages.InvalidIncludedSources,
                          validateSources(o.includedSources[1]).invalidSources,
                          ErrorMessages.SourcesMustBe)>>
  ELSE IF o.excludeSources # <<>>
            /\ ~validateSources(o.excludeSources[1]).valid
    THEN <<SourcesMessage(ErrorMessages.InvalidExcludeSources,
                          validateSources(o.excludeSources[1]).invalidSources,
                          ErrorMessages.SourcesMustBe)>>
  ELSE <<>>

\* the payload of search; a field the payload lacks is <<>>
SearchPayload(query, o) ==
  [query |-> query,
   search_type |-> IF IsSearchType(ProvidedSearchType(o))
                     THEN ProvidedSearchType(o)[1] ELSE All,
   max_num_results |-> OrElse(o.maxNumResults, Num(DefaultMaxNumResults)),
   is_tool_call |-> OrElse(o.isToolCall, TRUE),
   relevance_threshold |-> OrElse(o.relevanceThreshold, "0.5"),
   max_price |-> o.maxPrice,
   included_sources |-> o.includedSources,
   exclude_sources |-> o.excludeSources,
   category |-> o.category,
   start_date |-> o.startDate,
   end_date |-> o.endDate,
   country_code |-> o.countryCode,
   response_length |-> o.responseLength,
   fast_mode |-> o.fastMode,
   url_only |-> o.urlOnly]

\* search, up to its await of the request
SearchCall ==
  /\ client # <<>>
  /\ cpc = "idle"
  /\ \E query \in {<<>>, <<"q">>}, o \in SearchOptionSet :
       \E c \in {[method |-> "search", query |-> query, options |-> o]} :
         \E er \in {SearchValidation(o)} :
           IF er # <<>>
             THEN Settle(c, SearchFailure(query, er))
             ELSE Send(c, Request("POST", "/deepsearch", SearchPayload(query, o)))
  /\ UNCHANGED <<client, thrown>>
  /\ UNCHANGED pollVars
  /\ UNCHANGED answerVars

\* search, from the end of its request on
SearchCompletes(c, o) ==
  IF o.threw
    THEN Resolved(SearchFailure(c.query, ErrorText(CaughtError(o))))
    ELSE LET response == o.response[1]
         IN IF response.status < 200 \/ response.status >= 300
              THEN Resolved(SearchFailure(c.query,
                                          ErrorText(DataError(response))))
              ELSE Resolved(PassedOn(response.data))


(***************************************************************************)
(* contents                                                                *)
(***************************************************************************)
MaxUrlsPerRequest == 10
MaxUrlsAsync == 50


\* a responseLength: one of the names, or a number
LengthName(s) == [type |-> "string", s |-> s, n |-> Num(0)]
LengthNumber(n) == [type |-> "number", s |-> "", n |-> Num(n)]

\* async is the option the README describes; ContentsOptions has no such
\* field and contents does not read it
ContentsValues ==
  [summary |-> {TRUE},
   extractEffort |-> {"normal", "high", "auto", "quick", ""},
   responseLength |-> {LengthName("short"), LengthName("max"),
                       LengthName("huge"), LengthNumber(500), LengthNumber(0)},
   maxPriceDollars |-> {Num(1)},
   screenshot |-> {TRUE},
   async |-> {TRUE, FALSE}]

ContentsOptionSet == OptionsUpTo(ContentsValues, MaxFields)

\* the numbers of URLs a caller passes
UrlCounts == (0..MaxUrls) \cup {MaxUrlsAsync, MaxUrlsAsync + 1}

Urls(n) == [i \in 1..n |-> "https://a.io"]

\* the object contents returns when it fails
ContentsFailure(requested, failed, er) ==
  [success |-> <<FALSE>>, error |-> er, urls_requested |-> requested,
   urls_processed |-> 0, urls_failed |-> failed, results |-> <<>>,
   total_cost_dollars |-> 0, total_characters |-> 0]

\* a limit test that lets a list of 11 through
TooManyFromTwelve(urls) == Len(urls) > MaxUrlsPerRequest + 1

\* urls.length > 10
TooMany(urls) == Len(urls) > MaxUrlsPerRequest

\* the validation of contents: <<>> or <<the object it returns>>
ContentsValidation(urls, o) ==
  IF Len(urls) = 0
    THEN <<ContentsFailure(0, 0, <<Message(ErrorMessages.UrlsEmpty)>>)>>
  ELSE IF TooMany(urls)
    THEN <<ContentsFailure(Len(urls), Len(urls), <<Message(ErrorMessages.TooManyUrls)>>)>>
  ELSE IF ~Falsy(o.extractEffort)
            /\ o.extractEffort[1] \notin {"normal", "high", "auto"}
    THEN <<ContentsFailure(Len(urls), Len(urls), <<Message(ErrorMessages.BadExtractEffort)>>)>>
  ELSE IF o.responseLength # <<>>
            /\ o.responseLength[1].type = "string"
            /\ o.responseLength[1].s \notin {"short", "medium", "large", "max"}
    THEN <<ContentsFailure(Len(urls), Len(urls), <<Message(ErrorMessages.BadResponseLength)>>)>>
  ELSE IF o.responseLength # <<>>
            /\ o.responseLength[1].type = "number"
            /\ LessOrEqual(o.responseLength[1].n, Num(0))
    THEN <<ContentsFailure(Len(urls), Len(urls),
                           <<Message(ErrorMessages.ResponseLengthPositive)>>)>>
  ELSE <<>>

\* the payload of contents
ContentsPayload(urls, o) ==
  [urls |-> urls, summary |-> o.summary, extract_effort |-> o.extractEffort,
   response_length |-> o.responseLength,
   max_price_dollars |-> o.maxPriceDollars, screenshot |-> o.screenshot]

\* contents, up to its await of the request
ContentsCall ==
  /\ client # <<>>
  /\ cpc = "idle"
  /\ \E n \in UrlCounts, o \in ContentsOptionSet :
       \E c \in {[method |-> "contents", urls |-> Urls(n), options |-> o]} :
         \E failure \in {ContentsValidation(c.urls, o)} :
           IF failure # <<>>
             THEN Settle(c, failure[1])
             ELSE Send(c, Request("POST", "/contents",
                                  ContentsPayload(c.urls, o)))
  /\ UNCHANGED <<client, thrown>>
  /\ UNCHANGED pollVars
  /\ UNCHANGED answerVars

\* contents, from the end of its request on
ContentsCompletes(c, o) ==
  IF o.threw
    THEN Resolved(ContentsFailure(Len(c.urls), Len(c.urls),
                                  ErrorText(CaughtError(o))))
    ELSE LET response == o.response[1]
         IN IF response.status < 200 \/ response.status >= 300
              THEN Resolved(ContentsFailure(
                     Len(c.urls), Len(c.urls),
                     IF Falsy(DataError(response)) THEN <<Message(ErrorMessages.RequestFailed)>>
                     ELSE ErrorText(DataError(response))))
              ELSE Resolved(PassedOn(response.data))

(***************************************************************************)
(* deepresearch.create, deepresearch.update, batch.addTasks                *)
(***************************************************************************)
MaxTasksPerRequest == 100

\* the DeepResearchCreateOptions a caller passes; of the fields that are
\* copied to the payload when truthy, strategy and webhookUrl stand for all
CreateValues ==
  [query |-> {<<>>, <<" ">>, <<"q">>, <<" ", "q", " ">>},
   input |-> {<<>>, <<"i">>},
   mode |-> {"standard", "heavy"},
   model |-> {"fast", "heavy"},
   outputFormats |-> {<<>>, <<"pdf">>, <<"markdown", "toon">>},
   codeExecution |-> {TRUE, FALSE},
   strategy |-> {"", "s"},
   webhookUrl |-> {"https://hook.io"}]

CreateOptionSet == OptionsUpTo(CreateValues, MaxCreateFields)

\* a || b on an optional value: undefined and the falsy value are replaced
OrFalsy(opt, falsy, default) ==
  IF opt = <<>> THEN default ELSE IF opt[1] = falsy THEN default ELSE opt[1]

\* a ?? b on two optional values
Coalesce(a, b) == IF a = <<>> THEN b ELSE a

\* a mode that prefers the deprecated field
CreateModeModelFirst(o) == OrFalsy(Coalesce(o.model, o.mode), "", "fast")

\* const mode = options.mode ?? options.model; mode || "fast"
CreateMode(o) == OrFalsy(Coalesce(o.mode, o.model), "", "fast")

\* the payload of deepresearch.create
CreatePayload(o) ==
  [query |-> Coalesce(o.query, o.input)[1],
   mode |-> CreateMode(o),
   output_formats |-> OrElse(o.outputFormats, <<"markdown">>),
   code_execution |-> o.codeExecution # <<FALSE>>,
   strategy |-> IF Falsy(o.strategy) THEN <<>> ELSE o.strategy,
   webhook_url |-> IF Falsy(o.webhookUrl) THEN <<>> ELSE o.webhookUrl]

\* !queryValue?.trim()
Blank(text) == text = <<>> \/ Trim(text[1]) = <<>>

\* deepresearch.create, up to its await of the request
DeepresearchCreateCall ==
  /\ client # <<>>
  /\ cpc = "idle"
  /\ \E o \in CreateOptionSet :
       \E c \in {[method |-> "deepresearch.create", options |-> o]} :
         IF Blank(Coalesce(o.query, o.input))
           THEN Settle(c, Failure(<<ErrorMessages.QueryRequired>>))
           ELSE Send(c, Request("POST", "/deepresearch/tasks", CreatePayload(o)))
  /\ UNCHANGED <<client, thrown>>
  /\ UNCHANGED pollVars
  /\ UNCHANGED answerVars

\* deepresearch.update, up to its await of the request
DeepresearchUpdateCall ==
  /\ client # <<>>
  /\ cpc = "idle"
  /\ \E instruction \in {<<>>, <<" ">>, <<"g", "o", " ", "o", "n">>} :
       \E c \in {[method |-> "deepresearch.update",
                  instruction |-> instruction]} :
         IF Trim(instruction) = <<>>
           THEN Settle(c, Failure(<<ErrorMessages.InstructionRequired>>))
           ELSE Send(c, Request("POST", "/deepresearch/tasks/t1/update",
                                [instruction |-> instruction]))
  /\ UNCHANGED <<client, thrown>>
  /\ UNCHANGED pollVars
  /\ UNCHANGED answerVars

\* a BatchTaskInput: its query and its input
Task(query, input) == [query |-> query, input |-> input]
TaskSet == {Task(<<"q">>, <<>>), Task(<<>>, <<"i">>), Task(<<>>, <<>>),
            Task(<<"">>, <<"">>), Task(<<"">>, <<"i">>), Task(<<"q">>, <<"i">>)}

\* the tasks arrays a caller passes
TaskLists ==
  {<<>>} \cup {<<t>> : t \in TaskSet} \cup {<<s, t>> : s \in TaskSet, t \in TaskSet}
    \cup {[i \in 1..n |-> Task(<<"q">>, <<>>)] :
            n \in {MaxTasksPerRequest, MaxTasksPerRequest + 1}}

\* the validation of batch.addTasks: <<>> or <<the message of the error>>
AddTasksValidation(tasks) ==
  IF Len(tasks) = 0 THEN <<ErrorMessages.TasksEmpty>>
  ELSE IF Len(tasks) > MaxTasksPerRequest THEN <<ErrorMessages.TooManyTasks>>
  ELSE IF \E i \in 1..Len(tasks) : Falsy(tasks[i].query) /\ Falsy(tasks[i].input)
    THEN <<ErrorMessages.TaskNeedsQuery>>
  ELSE <<>>

\* the payload of one task: its query, if it has a truthy one
TaskPayload(task) ==
  [query |-> IF Falsy(Coalesce(task.query, task.input)) THEN <<>>
             ELSE Coalesce(task.query, task.input)]

\* batch.addTasks, up to its await of the request
BatchAddTasksCall ==
  /\ client # <<>>
  /\ cpc = "idle"
  /\ \E tasks \in TaskLists :
       \E c \in {[method |-> "batch.addTasks", tasks |-> tasks]} :
         \E er \in {AddTasksValidation(tasks)} :
           IF er # <<>>
             THEN Settle(c, Failure(er))
             ELSE Send(c, Request("POST", "/deepresearch/batches/b1/tasks",
                                  [tasks |-> [i \in 1..Len(tasks) |->
                                                TaskPayload(tasks[i])]]))
  /\ UNCHANGED <<client, thrown>>
  /\ UNCHANGED pollVars
  /\ UNCHANGED answerVars

(***************************************************************************)
(* answer: the validation, the payload and the request                     *)
(***************************************************************************)
MaxSystemInstructions == 2000


\* systemInstructions of 2000 characters between two spaces, and of 2001
LongestInstructions ==
  [i \in 1..(MaxSystemInstructions + 2) |->
     IF i \in {1, MaxSystemInstructions + 2} THEN " " ELSE "a"]
TooLongInstructions == [i \in 1..(MaxSystemInstructions + 1) |-> "a"]

AnswerValues ==
  [structuredOutput |-> {TRUE},
   systemInstructions |-> {<<>>, <<" ">>, <<"b", "e", " ", "b", "r", "i", "e", "f">>, LongestInstructions,
                           TooLongInstructions},
   searchType |-> SearchTypeTexts,
   dataMaxPrice |-> {Num(5), Num(0), NaN},
   countryCode |-> {"US"},
   includedSources |-> SomeSourceLists,
   excludedSources |-> SomeSourceLists,
   startDate |-> DateTexts,
   endDate |-> DateTexts,
   fastMode |-> {TRUE},
   streaming |-> {TRUE, FALSE}]

\* the AnswerOptions a caller passes
AnswerOptionSet ==
  OptionsUpTo(AnswerValues, MaxFields)
    \cup OptionsOnly(AnswerValues, "includedSources", SourceLists)
    \cup OptionsOnly(AnswerValues, "excludedSources", SourceLists)

\* a validation that looks at the dates before the searchType
validateAnswerParamsDatesFirst(query, o) ==
  IF query = <<>> \/ Len(Trim(query)) = 0 THEN <<Message(ErrorMessages.QueryNonEmpty)>>
  ELSE IF ~Falsy(o.startDate) /\ ~validateDateFormat(o.startDate[1])
    THEN <<Message(ErrorMessages.InvalidStartDate)>>
  ELSE IF ~Falsy(o.endDate) /\ ~validateDateFormat(o.endDate[1])
    THEN <<Message(ErrorMessages.InvalidEndDate)>>
  ELSE IF ProvidedSearchType(o) # <<>> /\ ~IsSearchType(ProvidedSearchType(o))
    THEN <<Message(ErrorMessages.InvalidSearchType)>>
  ELSE <<>>

\* validateAnswerParams: <<>> (null) or <<the message of the error>>
validateAnswerParams(query, o) ==
  IF query = <<>> \/ Len(Trim(query)) = 0 THEN <<Message(ErrorMessages.QueryNonEmpty)>>
  ELSE IF ProvidedSearchType(o) # <<>> /\ ~IsSearchType(ProvidedSearchType(o))
    THEN <<Message(ErrorMessages.InvalidSearchType)>>
  ELSE IF o.systemInstructions # <<>>
            /\ Len(Trim(o.systemInstructions[1])) = 0
    THEN <<Message(ErrorMessages.SystemInstructionsEmpty)>>
  ELSE IF o.systemInstructions # <<>>
            /\ Len(Trim(o.systemInstructions[1])) > MaxSystemInstructions
    THEN <<Message(ErrorMessages.SystemInstructionsLong)>>
  ELSE IF o.dataMaxPrice # <<>> /\ LessOrEqual(o.dataMaxPrice[1], Num(0))
    THEN <<Message(ErrorMessages.DataMaxPricePositive)>>
  ELSE IF ~Falsy(o.startDate) /\ ~validateDateFormat(o.startDate[1])
    THEN <<Message(ErrorMessages.InvalidStartDate)>>
  ELSE IF ~Falsy(o.endDate) /\ ~validateDateFormat(o.endDate[1])
    THEN <<Message(ErrorMessages.InvalidEndDate)>>
  ELSE IF ~Falsy(o.startDate) /\ ~Falsy(o.endDate)
            /\ DateValue(o.startDate[1]) > DateValue(o.endDate[1])
    THEN <<Message(ErrorMessages.StartBeforeEnd)>>
  ELSE IF o.includedSources # <<>>
            /\ ~validateSources(o.includedSources[1]).valid
    THEN <<SourcesMessage(ErrorMessages.InvalidIncludedSources,
                          validateSources(o.includedSources[1]).invalidSources,
                          ".")>>
  ELSE IF o.excludedSources # <<>>
            /\ ~validateSources(o.excludedSources[1]).valid
    THEN <<SourcesMessage(ErrorMessages.InvalidExcludedSources,
                          validateSources(o.excludedSources[1]).invalidSources,
                          ".")>>
  ELSE <<>>

buildAnswerPayload(query, o) ==
  [query |-> Trim(query),
   search_type |-> IF IsSearchType(ProvidedSearchType(o))
                     THEN ProvidedSearchType(o)[1] ELSE All,
   data_max_price |-> o.dataMaxPrice,
   structured_output |-> o.structuredOutput,
   system_instructions |-> IF o.systemInstructions = <<>> THEN <<>>
                           ELSE <<Trim(o.systemInstructions[1])>>,
   country_code |-> o.countryCode,
   included_sources |-> o.includedSources,
   excluded_sources |-> o.excludedSources,
   start_date |-> o.startDate,
   end_date |-> o.endDate,
   fast_mode |-> o.fastMode]

\* a chunk of type "error"
ErrorChunk(er) ==
  [type |-> "error", content |-> <<>>, finish_reason |-> "",
   search_results |-> <<>>, contents |-> <<>>, error |-> er]

\* the chunks the generator of createErrorGenerator yields
createErrorGenerator(er) == <<ErrorChunk(er)>>

\* the AnswerResponse of a failure
AnswerFailure(text) ==
  [success |-> FALSE, tx_id |-> "", contents |-> <<>>, search_results |-> <<>>,
   error |-> text]

\* answer, up to the fetch of fetchAnswer or streamAnswer; a generator it
\* returns is run to its end
AnswerRequestCall ==
  /\ client # <<>>
  /\ cpc = "idle"
  /\ apc = "idle"
  /\ \E query \in QueryTexts, o \in AnswerOptionSet :
       \E c \in {[method |-> "answer", query |-> query, options |-> o]} :
         \E validationError \in {validateAnswerParams(query, o)} :
           IF validationError # <<>>
             THEN /\ Settle(c, IF Truthy(o.streaming)
                                  THEN [success |-> <<>>, error |-> <<>>,
                                        data |-> <<"generator">>]
                                  ELSE [success |-> <<FALSE>>,
                                        error |-> validationError,
                                        data |-> <<>>])
                  /\ IF Truthy(o.streaming)
                       THEN /\ mode' = "stream"
                            /\ chunks' = createErrorGenerator(validationError[1])
                            /\ apc' = "done"
                       ELSE UNCHANGED <<mode, chunks, apc>>
             ELSE /\ call' = <<c>>
                  /\ sent' = <<Request("POST", "/answer",
                                       buildAnswerPayload(query, o))>>
                  /\ cpc' = "fetching"
                  /\ outcome' = <<>>
                  /\ settled' = <<>>
                  /\ mode' = IF Truthy(o.streaming) THEN "stream" ELSE "fetch"
                  /\ UNCHANGED <<chunks, apc>>
  /\ UNCHANGED <<body, pos, pending, buffer, fullContent, searchResults,
                 finalMetadata, answer>>
  /\ UNCHANGED <<client, thrown>>
  /\ UNCHANGED pollVars

(***************************************************************************)
(* answer: how the fetch ends                                              *)
(***************************************************************************)

\* "HTTP Error: " and the status
HttpError(st) ==
  [text |-> "HTTP Error: ", sources |-> <<>>, tail |-> "", status |-> st]

\* how the fetch of an answer call can end: it rejects, it answers with a
\* status that is not ok (and a body that is JSON with an error, JSON without
\* one, or not JSON), or it answers ok without a body or with one
FetchOutcomes ==
  {[kind |-> "threw", message |-> "fetch failed", status |-> 0, json |-> <<>>],
   [kind |-> "threw", message |-> "", status |-> 0, json |-> <<>>],
   [kind |-> "status", message |-> "", status |-> 500, json |-> <<>>],
   [kind |-> "status", message |-> "", status |-> 429,
    json |-> <<[error |-> <<>>]>>],
   [kind |-> "status", message |-> "", status |-> 401,
    json |-> <<[error |-> <<"Invalid API key">>]>>],
   [kind |-> "nobody", message |-> "", status |-> 200, json |-> <<>>],
   [kind |-> "body", message |-> "", status |-> 200, json |-> <<>>]}

\* the bodies an answer call reads after its own request
AnswerBodies == {b \o t : b \in BodiesOf(MaxAnswerLines), t \in TailSet}

\* errorData.error || `HTTP Error: ${response.status}`
\* with errorData = await response.json().catch(() => ({}))
StatusError(o) ==
  IF o.json = <<>> THEN HttpError(o.status)
  ELSE IF Falsy(o.json[1].error) THEN HttpError(o.status)
  ELSE Message(o.json[1].error[1])

\* the error of a fetch that did not lead to the read loop, as the error of
\* a chunk or of an AnswerResponse
FetchError(o, fallback) ==
  CASE o.kind = "threw" -> Message(OrString(o.message, fallback))
    [] o.kind = "status" -> StatusError(o)
    [] OTHER -> Message(ErrorMessages.NoResponseBody)

\* a streamAnswer that throws what it catches
StreamCaughtRethrown(chunkList, er) == chunkList

\* streamAnswer yields an error chunk and returns
StreamCaught(chunkList, er) == Append(chunkList, ErrorChunk(er))

\* the fetch of the call ends
FetchCompletes ==
  /\ cpc = "fetching"
  /\ \E o \in FetchOutcomes :
       /\ outcome' = <<o>>
       /\ IF o.kind = "body"
            THEN \* from here on the call reads neither its arguments nor its
                 \* payload
                 /\ call' = <<[method |-> "answer"]>>
                 /\ sent' = <<[verb |-> "POST"]>>
                 /\ cpc' = "reading"
                 /\ body' \in AnswerBodies
                 /\ apc' = "reading"
                 /\ UNCHANGED <<chunks, answer, settled>>
            ELSE /\ cpc' = "settled"
                 /\ apc' = "done"
                 /\ UNCHANGED <<call, sent, body>>
                 /\ IF mode = "stream"
                      THEN /\ chunks' =
                                StreamCaught(chunks, FetchError(o, ErrorMessages.StreamFailed))
                           /\ UNCHANGED <<answer, settled>>
                      ELSE /\ answer' =
                                <<AnswerFailure(
                                    IF o.kind = "nobody"
                                      THEN Message("Unknown error occurred")
                                      ELSE FetchError(o, ErrorMessages.FetchFailed))>>
                           /\ settled' = <<Resolved(answer'[1])>>
                           /\ UNCHANGED chunks
  /\ pos' = 0
  /\ pending' = <<>>
  /\ buffer' = <<>>
  /\ fullContent' = <<>>
  /\ searchResults' = <<>>
  /\ finalMetadata' = EmptyDoc
  /\ UNCHANGED <<mode, client, thrown>>
  /\ UNCHANGED pollVars

\* reader.read() rejects: the catch block of the call runs
AnswerReadThrows ==
  /\ apc = "reading"
  /\ cpc = "reading"
  /\ \E message \in {"terminated", ""} :
       IF mode = "stream"
         THEN /\ chunks' = StreamCaught(chunks,
                                        Message(OrString(message, ErrorMessages.StreamFailed)))
              /\ UNCHANGED answer
         ELSE /\ answer' = <<AnswerFailure(
                               Message(OrString(message, ErrorMessages.FetchFailed)))>>
              /\ UNCHANGED chunks
  /\ apc' = "done"
  /\ cpc' = "settled"
  /\ UNCHANGED <<mode, body, pos, pending, buffer, fullContent, searchResults,
                 finalMetadata>>
  /\ UNCHANGED <<client, thrown, call, sent, outcome, settled>>
  /\ UNCHANGED pollVars

(***************************************************************************)
(* deepresearch.getAssets: the token or the API key.                       *)
(***************************************************************************)
\* options.token of the caller: none, "", or a token
AssetTokens == {<<>>, <<"">>, <<"tok">>, <<"t2">>}

\* params.toString() ? `?${params.toString()}` : ""
AssetsQuery(token) ==
  IF Falsy(token) THEN <<>> ELSE <<"?", "token=", token[1]>>

\* a getAssets that sends the API key whatever the options are
AssetsHeadersWithKey(token) == "x-api-key" :> client[1].headers["x-api-key"]

\* the headers of getAssets: the API key if no token is provided
AssetsHeaders(token) ==
  IF Falsy(token) THEN "x-api-key" :> client[1].headers["x-api-key"]
  ELSE <<>>

\* deepresearch.getAssets, up to its await of the request
DeepresearchGetAssetsCall ==
  /\ client # <<>>
  /\ cpc = "idle"
  /\ \E token \in AssetTokens :
       Send([method |-> "deepresearch.getAssets", token |-> token,
             shape |-> "buffer"],
            [verb |-> "GET",
             url |-> <<client[1].baseUrl, "/deepresearch/tasks/t1/assets/a1">>
                       \o AssetsQuery(token),
             payload |-> <<>>,
             headers |-> AssetsHeaders(token)])
  /\ UNCHANGED <<client, thrown>>
  /\ UNCHANGED pollVars
  /\ UNCHANGED answerVars

(***************************************************************************)
(* The specifications of the client.                                       *)
(***************************************************************************)
\* the call from the end of its request on
Completes(c, o) ==
  CASE c.method = "search" -> SearchCompletes(c, o)
    [] c.method = "contents" -> ContentsCompletes(c, o)
    [] c.method \in {"deepresearch.create", "deepresearch.update",
                     "batch.addTasks"} ->
         IF o.threw THEN Caught(o) ELSE Returned("spread", o.response[1].data)
    [] OTHER -> SimpleCompletes(c, o)

\* the request of the call ends
HttpCompletes ==
  /\ cpc = "awaiting"
  /\ \E o \in AxiosOutcomes :
       /\ outcome' = <<o>>
       /\ settled' = <<Completes(call[1], o)>>
  /\ cpc' = "settled"
  /\ UNCHANGED <<client, thrown, call, sent>>
  /\ UNCHANGED pollVars
  /\ UNCHANGED answerVars

ClientNext ==
  \/ Construct
  \/ SimpleCall
  \/ SearchCall
  \/ ContentsCall
  \/ DeepresearchCreateCall
  \/ DeepresearchUpdateCall
  \/ BatchAddTasksCall
  \/ DeepresearchGetAssetsCall
  \/ AnswerRequestCall
  \/ HttpCompletes

\* the constructor, then any one call of a method, up to the end of its
\* request (for answer: up to its request)
ClientSpec == Init /\ [][ClientNext]_vars

\* the constructor, then a call of search
SearchSpec == Init /\ [][Construct \/ SearchCall \/ HttpCompletes]_vars

\* the constructor, then a call of contents
ContentsSpec == Init /\ [][Construct \/ ContentsCall \/ HttpCompletes]_vars

\* the constructor, then a call of deepresearch.create
CreateSpec ==
  Init /\ [][Construct \/ DeepresearchCreateCall \/ HttpCompletes]_vars

\* the constructor, then a call of deepresearch.getAssets
GetAssetsSpec ==
  Init /\ [][Construct \/ DeepresearchGetAssetsCall \/ HttpCompletes]_vars

\* the constructor, then a call of batch.addTasks
AddTasksSpec == Init /\ [][Construct \/ BatchAddTasksCall \/ HttpCompletes]_vars

AnswerCallNext ==
  \/ Construct
  \/ AnswerRequestCall
  \/ FetchCompletes
  \/ AnswerRead
  \/ AnswerReadThrows
  \/ AnswerDone

\* the constructor, then a call of answer, to its end
AnswerCallSpec == Init /\ [][AnswerCallNext]_vars

(***************************************************************************)
(* The specifications.                                                     *)
(***************************************************************************)
WaitNext ==
  \/ DeepresearchWaitCall
  \/ DeepresearchWaitPoll
  \/ BatchWaitForCompletionCall
  \/ BatchWaitForCompletionPoll
  \/ WaitTimerFires

StreamNext ==
  \/ DeepresearchStreamCall
  \/ DeepresearchStreamPoll
  \/ StreamTimerFires

Next == WaitNext \/ StreamNext

\* any one call
Spec == Init /\ [][Next]_vars

\* the wait calls
WaitSpec == Init /\ [][WaitNext]_vars

\* the wait calls when every status request completes and every timer fires
FairWaitSpec ==
  /\ WaitSpec
  /\ WF_vars(DeepresearchWaitPoll)
  /\ WF_vars(BatchWaitForCompletionPoll)
  /\ WF_vars(WaitTimerFires)

\* the stream call
StreamSpec == Init /\ [][StreamNext]_vars

\* the stream call when every status request completes and every timer fires
FairStreamSpec ==
  /\ StreamSpec
  /\ WF_vars(DeepresearchStreamPoll)
  /\ WF_vars(StreamTimerFires)

(***************************************************************************)
(* What the claims speak of.                                               *)
(***************************************************************************)
IsWait == op \in {"wait", "batchWait"}

\* the last status request failed (for a batch: or answered without a batch)
PollFailed ==
  /\ status # <<>>
  /\ \/ ~status[1].success
     \/ op = "batchWait" /\ status[1].batch = <<>>

\* what the last successful poll reported: the status response of
\* deepresearch, the batch of a batch
Polled == IF op = "batchWait" THEN status[1].batch[1] ELSE status[1]

TerminalOf(o) ==
  IF o = "batchWait" THEN {"completed", "completed_with_errors", "cancelled"}
                     ELSE {"completed", "failed", "cancelled"}

PollNonTerminal ==
  status # <<>> /\ ~PollFailed /\ Polled.status \notin TerminalOf(op)

Ended == pc \in {"resolved", "rejected"}

\* the loop has just run its body on the response of a poll
AfterPoll == pc \in {"sleeping", "resolved", "rejected"}

\* the delays of the sleeps of the current iteration
Sleeps(log) ==
  LET s == SelectSeq(log, LAMBDA e : e.e = "sleep")
  IN [i \in 1..Len(s) |-> s[i].ms]

\* the callbacks the current iteration invoked, in order
Callbacks(log) ==
  SelectSeq(log, LAMBDA e : e.e \in {"onProgress", "onMessage", "onComplete",
                                     "onError"})

(***************************************************************************)
(* C1: under FairWaitSpec (every status request completes, every timer fires   *)
(* and the clock advances across it) every call of deepresearch.wait and   *)
(* of batch.waitForCompletion ends, and it ends in one of three ways: it   *)
(* returns a terminal status, it rejects because the status request        *)
(* failed, or it rejects with "Maximum wait time exceeded".                *)
(***************************************************************************)
WaitEndedProperly ==
  \/ pc = "resolved" /\ result # <<>> /\ result[1].status \in TerminalOf(op)
  \/ pc = "rejected" /\ PollFailed
  \/ pc = "rejected" /\ error = MaxWaitExceeded

C2_StreamTerminates == (op = "stream") ~> Ended

(***************************************************************************)
(* C2 amended: deepresearch.stream has no bound of its own.  A poll ends   *)
(* the call exactly when its status request failed or it reports           *)
(* completed, failed or cancelled; after any other poll the call sleeps,   *)
(* and the only thing a sleeping call does, and can always do, is issue    *)
(* the next status request.                                                *)
(***************************************************************************)
StreamPollEnds ==
  PollFailed \/ status[1].status \in {"completed", "failed", "cancelled"}

C2_StreamEndsOnlyOnTerminal ==
  /\ [][op = "stream" /\ pc = "request" /\ pc' # "request"
          => /\ StreamPollEnds' <=> pc' = "resolved"
             /\ ~StreamPollEnds' <=> pc' = "sleeping"]_vars
  /\ [][op = "stream" /\ pc = "sleeping" /\ pc' # "sleeping"
          => pc' = "request"]_vars
  /\ [](op = "stream" /\ pc = "sleeping" => ENABLED StreamTimerFires)

\* a stream that is still polling after MaxPolls status requests
C2_Witness ==
  /\ op = "stream"
  /\ pc = "sleeping"
  /\ polls = MaxPolls
  /\ status[1].status = "running"

(***************************************************************************)
(* C3: a wait call resolves only with a terminal status, and the value it  *)
(* resolves with is what the last status poll reported.                    *)
(***************************************************************************)
C3_ResolvesWithTerminal ==
  IsWait /\ pc = "resolved"
    => /\ ~PollFailed
       /\ result = <<Polled>>
       /\ result[1].status \in TerminalOf(op)

\* a batch wait that resolved after an earlier poll reported a
\* non-terminal status
C3_Witness ==
  /\ op = "batchWait"
  /\ pc = "resolved"
  /\ polls >= 2
  /\ result[1].status = "completed_with_errors"

(***************************************************************************)
(* C4: with maxWaitTime M positive or absent (then 7200000): a poll that   *)
(* reports a non-terminal status when more than M has elapsed makes the    *)
(* call reject with "Maximum wait time exceeded" instead of sleeping and   *)
(* polling again, and the call rejects with that error only when more      *)
(* than M has elapsed at the check.                                        *)
(***************************************************************************)
ClaimedMaxWait ==
  IF options.maxWaitTime = <<>> THEN 7200000 ELSE options.maxWaitTime[1]

C4_Timeout ==
  IsWait /\ (options.maxWaitTime = <<>> \/ options.maxWaitTime[1] > 0)
    => /\ pc = "sleeping" => elapsed <= ClaimedMaxWait
       /\ AfterPoll /\ PollNonTerminal /\ elapsed > ClaimedMaxWait
            => pc = "rejected" /\ error = MaxWaitExceeded
       /\ pc = "rejected" /\ error = MaxWaitExceeded
            => elapsed > ClaimedMaxWait /\ PollNonTerminal

\* a call with maxWaitTime 2 whose poll at exactly 2 ms slept, and whose
\* next poll timed out
C4_Witness ==
  /\ IsWait
  /\ options.maxWaitTime = <<2>>
  /\ pc = "rejected"
  /\ error = MaxWaitExceeded
  /\ polls = 3
  /\ elapsed = 3

(***************************************************************************)
(* C5 as stated: between two consecutive status requests of one call       *)
(* exactly one sleep occurs; its length is the supplied pollInterval, else *)
(* 5000 ms (deepresearch.wait) or 10000 ms (batch.waitForCompletion), and  *)
(* always 5000 ms for deepresearch.stream; only the first request has no   *)
(* sleep before it.                                                        *)
(***************************************************************************)
ClaimedInterval ==
  IF op = "stream" THEN 5000
  ELSE IF options.pollInterval # <<>> THEN options.pollInterval[1]
  ELSE IF op = "wait" THEN 5000
  ELSE 10000

\* a step that issues a status request
IssuesRequest == pc # "request" /\ pc' = "request"

ActualInterval ==
  IF op = "stream" THEN 5000
  ELSE IF options.pollInterval # <<>> /\ options.pollInterval[1] # 0
    THEN options.pollInterval[1]
  ELSE IF op = "wait" THEN 5000
  ELSE 10000

C6_ProgressCallback ==
  IsWait /\ options.onProgress /\ AfterPoll
    => IF PollFailed
         THEN Callbacks(iter) = <<>>
         ELSE /\ Callbacks(iter) = <<EvCall("onProgress", Polled)>>
              /\ Len(iter) = 3
              /\ iter[2].e = "onProgress"
              /\ iter[3].e \in {"return", "throw", "sleep"}

\* the terminal status of a call is reported to onProgress too
C6_Witness ==
  /\ op = "wait"
  /\ options.onProgress
  /\ pc = "resolved"
  /\ polls >= 2
  /\ iter[2] = EvCall("onProgress", result[1])

(***************************************************************************)
(* C7: with onMessage supplied and a messages list that only grows by      *)
(* appending, the values passed to onMessage over the whole call are the   *)
(* messages list of the last poll that reported one: each message once,    *)
(* in order.                                                               *)
(***************************************************************************)
C7_MessagesOnceInOrder ==
  op = "stream" /\ callback.onMessage /\ AfterPoll => delivered = reported

\* two different messages that arrived in two different polls
C7_Witness ==
  /\ op = "stream"
  /\ callback.onMessage
  /\ pc = "resolved"
  /\ Len(delivered) = 2
  /\ delivered[1] # delivered[2]
  /\ Len(Callbacks(iter)) >= 1
  /\ Callbacks(iter)[1] = EvCall("onMessage", delivered[2])

(***************************************************************************)
(* C8 as stated: a stream call that has ended has invoked exactly one      *)
(* terminal callback, once: onComplete if and only if the last polled      *)
(* status is completed, onError if the status request failed or the status *)
(* is failed or cancelled; it is the last callback invoked.                *)
(***************************************************************************)
StreamCompleted == ~PollFailed /\ status[1].status = "completed"

TerminalCallbacks(log) ==
  SelectSeq(log, LAMBDA e : e.e \in {"onComplete", "onError"})

C8_OneTerminalCallbackAsStated ==
  op = "stream" /\ Ended
    => /\ completeCalls + errorCalls = 1
       /\ completeCalls = 1 <=> StreamCompleted
       /\ Len(TerminalCallbacks(iter)) = 1
       /\ Callbacks(iter)[Len(Callbacks(iter))].e \in {"onComplete", "onError"}

(***************************************************************************)
(* C8 amended: the terminal callbacks are optional.  A stream call that    *)
(* has ended has invoked onComplete once if it was supplied and the last   *)
(* polled status is completed, onError once if it was supplied and the     *)
(* status request failed or the status is failed or cancelled, and no      *)
(* other terminal callback; a terminal callback is the last callback       *)
(* invoked, and a call that has not ended has invoked none and polls only  *)
(* while the status is queued or running.                                  *)
(***************************************************************************)
C8_OneTerminalCallback ==
  op = "stream"
    => /\ ~Ended => /\ completeCalls = 0
                    /\ errorCalls = 0
                    /\ TerminalCallbacks(iter) = <<>>
                    /\ status # <<>> => PollNonTerminal
       /\ Ended
            => /\ pc = "resolved"
               /\ completeCalls =
                    (IF callback.onComplete /\ StreamCompleted THEN 1 ELSE 0)
               /\ errorCalls =
                    (IF callback.onError /\ ~StreamCompleted THEN 1 ELSE 0)
               /\ Len(TerminalCallbacks(iter)) = completeCalls + errorCalls
               /\ completeCalls = 1
                    => Callbacks(iter)[Len(Callbacks(iter))]
                         = EvCall("onComplete", status[1])
               /\ errorCalls = 1
                    => Callbacks(iter)[Len(Callbacks(iter))].e = "onError"

\* a stream that ended on a cancelled task after delivering a message, with
\* every callback supplied
C8_Witness ==
  /\ op = "stream"
  /\ pc = "resolved"
  /\ callback = [onMessage |-> TRUE, onProgress |-> TRUE, onComplete |-> TRUE,
                 onError |-> TRUE]
  /\ status[1].status = "cancelled"
  /\ errorCalls = 1
  /\ Len(Callbacks(iter)) >= 2
  /\ polls >= 2

(***************************************************************************)
(* What the claims about the answer parser speak of.                       *)
(***************************************************************************)
\* what the parser holds after one read that hands over all of bytes
OneRead(bytes) ==
  LET decoded == Decode(<<>>, bytes)
      segments == Split(decoded.text)
  IN [pending |-> decoded.pending,
      buffer |-> Rest(segments),
      fetch |-> FetchLines(FetchState(<<>>, <<>>, EmptyDoc),
                           CompleteLines(segments)),
      chunks |-> StreamLines(CompleteLines(segments))]

\* the documents of the newline-terminated data lines of a body, in order
RECURSIVE Characters(_)
Characters(bytes) ==
  IF bytes = <<>> THEN <<>>
  ELSE IF Len(bytes) >= 2 /\ bytes[1] = "C3" /\ bytes[2] = "A9"
    THEN <<"é">> \o Characters(SubSeq(bytes, 3, Len(bytes)))
  ELSE <<Head(bytes)>> \o Characters(Tail(bytes))

RECURSIVE TerminatedLines(_, _)
TerminatedLines(text, cur) ==
  IF text = <<>> THEN <<>>
  ELSE IF Head(text) = NL THEN <<cur>> \o TerminatedLines(Tail(text), <<>>)
  ELSE TerminatedLines(Tail(text), Append(cur, Head(text)))

RECURSIVE DocsOf(_)
DocsOf(lines) ==
  IF lines = <<>> THEN <<>>
  ELSE LET line == Head(lines)
           payload == SubSeq(line, 7, Len(line))
       IN (IF StartsWith(line, DataPrefix) /\ payload # DoneText
             THEN ParseJSON(payload) ELSE <<>>)
            \o DocsOf(Tail(lines))

ReceivedDocs(bytes) == DocsOf(TerminatedLines(Characters(bytes), <<>>))

IsContentDoc(doc) == doc.choices # <<>>
IsMetadataDoc(doc) ==
  doc.choices = <<>> /\ doc.success # <<>>
    /\ (doc.search_results = <<>> \/ doc.success = <<TRUE>>)

RECURSIVE ContentsOf(_)
ContentsOf(docs) ==
  IF docs = <<>> THEN <<>>
  ELSE (IF IsContentDoc(Head(docs)) THEN Head(docs).choices[1][1].content
                                    ELSE <<>>)
         \o ContentsOf(Tail(docs))

(***************************************************************************)
(* C9: whatever reads the body arrives in, what the parser holds after     *)
(* the first pos bytes is what it holds after one read of those bytes: the *)
(* chunks streamAnswer has yielded, the locals of fetchAnswer and the      *)
(* response it builds do not depend on where the reads split the body.     *)
(***************************************************************************)
C9_SplitIndependent ==
  apc \in {"reading", "done"}
    => \E whole \in {OneRead(SubSeq(body, 1, pos))} :
         /\ pending = whole.pending
         /\ buffer = whole.buffer
         /\ mode = "stream" => chunks = whole.chunks
         /\ mode = "fetch"
              => /\ FetchState(fullContent, searchResults, finalMetadata)
                      = whole.fetch
                 /\ apc = "done" => answer = <<BuildResponse(whole.fetch)>>

\* a read has ended inside the character of a content line, after a chunk
\* was yielded for an earlier line
C9_Witness ==
  /\ mode = "stream"
  /\ apc = "reading"
  /\ pending # <<>>
  /\ Len(buffer) > Len(DataPrefix)
  /\ Len(chunks) >= 1

(***************************************************************************)
(* C10: when the last metadata line fetchAnswer received reports success   *)
(* and carries no contents, the contents of the response is the delta      *)
(* content of every content line received, concatenated in arrival order.  *)
(***************************************************************************)
C10_Reassembly ==
  mode = "fetch" /\ apc = "done"
    => \E docs \in {ReceivedDocs(body)} :
         \E metas \in {SelectSeq(docs, IsMetadataDoc)} :
           /\ metas # <<>>
           /\ metas[Len(metas)].success = <<TRUE>>
           /\ metas[Len(metas)].contents = <<>>
           => /\ answer[1].success
              /\ answer[1].contents = ContentsOf(docs)

\* two different tokens, then the metadata, and a last read that ended
\* inside the body
C10_Witness ==
  /\ mode = "fetch"
  /\ apc = "done"
  /\ answer[1].success
  /\ answer[1].contents = <<"é", "a">>
  /\ finalMetadata.contents = <<>>

(***************************************************************************)
(* What the claims about the client speak of.                              *)
(***************************************************************************)
TheCall == call[1]
Value == settled[1].value

\* the call is one of the methods that never throw: all but the
\* constructor, answer, and the wait and stream loops
Structured ==
  call # <<>> /\ TheCall.method \notin {"constructor", "answer"}

\* the call has ended without a request: its validation failed
ValidationFailed == cpc = "settled" /\ outcome = <<>>

\* the request of the call failed: no response, or an error status
HttpFailed == cpc = "settled" /\ outcome # <<>> /\ outcome[1].threw

\* the texts of the validation errors
ValidationTexts ==
  {ErrorMessages.InvalidSearchType, ErrorMessages.InvalidStartDate, ErrorMessages.InvalidEndDate, ErrorMessages.MaxNumResultsRange,
   ErrorMessages.InvalidIncludedSources, ErrorMessages.InvalidExcludeSources, ErrorMessages.InvalidExcludedSources,
   ErrorMessages.UrlsEmpty, ErrorMessages.TooManyUrls, ErrorMessages.BadExtractEffort, ErrorMessages.BadResponseLength,
   ErrorMessages.ResponseLengthPositive, ErrorMessages.QueryRequired, ErrorMessages.InstructionRequired, ErrorMessages.TasksEmpty,
   ErrorMessages.TooManyTasks, ErrorMessages.TaskNeedsQuery, ErrorMessages.QueryNonEmpty, ErrorMessages.SystemInstructionsEmpty,
   ErrorMessages.SystemInstructionsLong, ErrorMessages.DataMaxPricePositive, ErrorMessages.StartBeforeEnd}

\* the call has reported a validation error, in the object it resolved with
\* or in the chunk its generator yielded
ReportsValidationError ==
  \/ /\ settled # <<>>
     /\ Value.error # <<>>
     /\ Value.error[1].text \in ValidationTexts
  \/ /\ mode = "stream"
     /\ chunks # <<>>
     /\ chunks[1].type = "error"
     /\ chunks[1].error.text \in ValidationTexts

\* C11: search, contents and every deepresearch, batch and datasources
\* method but the wait and stream loops never reject; when the validation or
\* the request fails they resolve with success = false and a defined error,
\* and search also with tx_id = null, no results, zero counts by source and
\* the caller's query.
C11_StructuredErrors ==
  Structured /\ cpc = "settled" =>
    /\ settled # <<>>
    /\ settled[1].kind = "resolved"
    /\ ValidationFailed \/ HttpFailed =>
         /\ Value.success = <<FALSE>>
         /\ Value.error # <<>>
         /\ TheCall.method = "search" =>
              /\ Value.tx_id = "null"
              /\ Value.results = <<>>
              /\ Value.results_by_source = [web |-> 0, proprietary |-> 0]
              /\ Value.query = TheCall.query

\* a search whose request got no response, and a task method whose request
\* was answered with an error status, have resolved
C11_Witness ==
  /\ HttpFailed
  /\ settled[1].kind = "resolved"
  /\ \/ /\ TheCall.method = "search"
        /\ outcome[1].response = <<>>
        /\ Value.error = <<Message("Network Error")>>
     \/ /\ TheCall.method = "batch.cancel"
        /\ outcome[1].response # <<>>
        /\ Value.error = <<Message("Invalid API key")>>

\* C12: when search, contents, answer, deepresearch.create,
\* deepresearch.update or batch.addTasks reports a validation error, the call
\* has issued no HTTP request; and no call changes the client's baseUrl or
\* headers.
C12_ValidationBeforeRequest ==
  /\ [](ReportsValidationError => sent = <<>>)
  /\ [][client # <<>> => client' = client]_vars

\* batch.addTasks has reported a task without a query, and a streaming
\* answer an invalid searchType, without a request
C12_Witness ==
  /\ ReportsValidationError
  /\ sent = <<>>
  /\ \/ TheCall.method = "batch.addTasks" /\ Value.error[1].text = ErrorMessages.TaskNeedsQuery
     \/ /\ TheCall.method = "answer"
        /\ chunks # <<>>
        /\ chunks[1].error.text = ErrorMessages.InvalidSearchType

\* the contents call, once it has validated its arguments
ContentsCalled == call # <<>> /\ TheCall.method = "contents" /\ cpc # "idle"

\* the contents call was rejected for the number of its URLs with message text
RejectedForCount(text) ==
  /\ ValidationFailed
  /\ sent = <<>>
  /\ Value.success = <<FALSE>>
  /\ Value.error = <<Message(text)>>

\* C13: contents rejects a bad URL count without a request: no URL gives
\* success = false, the error that the array cannot be empty and
\* urls_requested = 0; more than 10 URLs (without async) give success =
\* false, the error of the maximum of 10 URLs, urls_requested = urls_failed =
\* the number of URLs, urls_processed = 0 and no results; 1 to 10 URLs pass
\* the check.
C13_UrlCount ==
  ContentsCalled =>
    LET n == Len(TheCall.urls)
    IN /\ n = 0 => RejectedForCount(ErrorMessages.UrlsEmpty) /\ Value.urls_requested = 0
       /\ n > MaxUrlsPerRequest /\ TheCall.options.async # <<TRUE>> =>
            /\ RejectedForCount(ErrorMessages.TooManyUrls)
            /\ Value.urls_requested = n
            /\ Value.urls_failed = n
            /\ Value.urls_processed = 0
            /\ Value.results = <<>>
       /\ n \in 1..MaxUrlsPerRequest =>
            ~RejectedForCount(ErrorMessages.UrlsEmpty) /\ ~RejectedForCount(ErrorMessages.TooManyUrls)

\* contents was called with 11 URLs and has rejected them, and with 10 and
\* has sent them
C13_Witness ==
  /\ ContentsCalled
  /\ \/ Len(TheCall.urls) = MaxUrlsPerRequest + 1 /\ RejectedForCount(ErrorMessages.TooManyUrls)
     \/ Len(TheCall.urls) = MaxUrlsPerRequest /\ sent # <<>>

\* C14: contents with async: true and 11 to 50 URLs sends its request and
\* reports no validation error; with more than 50 URLs it is rejected with
\* the error of the maximum of 50 URLs.
C14_AsyncMode ==
  ContentsCalled /\ TheCall.options.async = <<TRUE>> =>
    LET n == Len(TheCall.urls)
    IN /\ n \in (MaxUrlsPerRequest + 1)..MaxUrlsAsync =>
            sent # <<>> /\ ~ValidationFailed
       /\ n > MaxUrlsAsync => RejectedForCount(ErrorMessages.TooManyUrlsAsync)

\* the answer call, once it has validated its arguments and before its
\* fetch has ended
AnswerCalled ==
  /\ call # <<>>
  /\ TheCall.method = "answer"
  /\ ValidationFailed \/ cpc = "fetching"

\* the call has resolved with success = false and one of the texts as error
ReportedAsObject(texts) ==
  /\ settled # <<>>
  /\ settled[1].kind = "resolved"
  /\ Value.success = <<FALSE>>
  /\ Value.error # <<>>
  /\ Value.error[1].text \in texts

\* the call has resolved with a generator whose only chunk is an error
\* chunk with one of the texts
ReportedAsChunk(texts) ==
  /\ settled # <<>>
  /\ settled[1].kind = "resolved"
  /\ Value.success = <<>>
  /\ Len(chunks) = 1
  /\ chunks[1].type = "error"
  /\ chunks[1].error.text \in texts

\* the answer call has reported one of the texts: in the object it
\* resolved with, or when streaming in the chunk of its generator
ReportedIn(texts) ==
  IF Truthy(TheCall.options.streaming) THEN ReportedAsChunk(texts)
  ELSE ReportedAsObject(texts)

\* the query is missing, empty or made of spaces
BlankQuery(query) == \A i \in 1..Len(query) : query[i] = " "

\* whether a supplied value fails its check, and the texts the check reports
Check(fails, texts) == [fails |-> fails, texts |-> texts]

Supplied(opt) == opt # <<>> /\ opt[1] # <<>>

\* the checks of answer in the order of the claim
AnswerChecks(query, o) ==
  <<Check(BlankQuery(query), {ErrorMessages.QueryNonEmpty}),
    Check(o.searchType # <<>>
            /\ ToLowerCase(o.searchType[1]) \notin {All, Web, Proprietary, News},
          {ErrorMessages.InvalidSearchType}),
    Check(o.systemInstructions # <<>>
            /\ Len(Trim(o.systemInstructions[1])) \notin 1..MaxSystemInstructions,
          {ErrorMessages.SystemInstructionsEmpty, ErrorMessages.SystemInstructionsLong}),
    Check(o.dataMaxPrice # <<>> /\ LessOrEqual(o.dataMaxPrice[1], Num(0)),
          {ErrorMessages.DataMaxPricePositive}),
    Check(Supplied(o.startDate) /\ ~validateDateFormat(o.startDate[1]),
          {ErrorMessages.InvalidStartDate}),
    Check(Supplied(o.endDate) /\ ~validateDateFormat(o.endDate[1]),
          {ErrorMessages.InvalidEndDate}),
    Check(/\ Supplied(o.startDate) /\ validateDateFormat(o.startDate[1])
          /\ Supplied(o.endDate) /\ validateDateFormat(o.endDate[1])
          /\ DateValue(o.endDate[1]) < DateValue(o.startDate[1]),
          {ErrorMessages.StartBeforeEnd}),
    Check(o.includedSources # <<>>
            /\ \E i \in 1..Len(o.includedSources[1]) :
                 ~validateSource(o.includedSources[1][i]),
          {ErrorMessages.InvalidIncludedSources}),
    Check(o.excludedSources # <<>>
            /\ \E i \in 1..Len(o.excludedSources[1]) :
                 ~validateSource(o.excludedSources[1][i]),
          {ErrorMessages.InvalidExcludedSources})>>

FailingChecks(checks) == {i \in 1..Len(checks) : checks[i].fails}

\* C15 as stated: a missing, empty or whitespace-only query always gives
\* success = false with the error that the query is required, whatever the
\* options; otherwise a searchType that is not all, web, proprietary or news
\* in any letter case gives success = false with the error of the invalid
\* searchType; the checks run in the order query, searchType,
\* systemInstructions, dataMaxPrice, startDate, endDate, date order,
\* includedSources, excludedSources.
C15_SuccessFalseInEveryMode ==
  AnswerCalled =>
    LET checks == AnswerChecks(TheCall.query, TheCall.options)
        failing == FailingChecks(checks)
    IN /\ checks[1].fails => ReportedAsObject({ErrorMessages.QueryNonEmpty})
       /\ ~checks[1].fails /\ checks[2].fails =>
            ReportedAsObject({ErrorMessages.InvalidSearchType})
       /\ failing = {} => cpc = "fetching"
       /\ failing # {} =>
            /\ ValidationFailed
            /\ \E i \in failing :
                 /\ \A j \in failing : i <= j
                 /\ ReportedAsObject(checks[i].texts)

\* C15: answer reports the first failing check, without streaming as
\* success = false with the error, with streaming as the only chunk, of type
\* 'error', of the generator it returns: a missing, empty or whitespace-only
\* query gives the error that the query is required, whatever the options;
\* otherwise a searchType that is not all, web, proprietary or news in any
\* letter case gives the error of the invalid searchType; and the error
\* reported is that of the first check that fails in the order query,
\* searchType, systemInstructions, dataMaxPrice, startDate, endDate, date
\* order, includedSources, excludedSources.
C15_FirstFailingCheck ==
  AnswerCalled =>
    LET checks == AnswerChecks(TheCall.query, TheCall.options)
        failing == FailingChecks(checks)
    IN /\ checks[1].fails => ReportedIn({ErrorMessages.QueryNonEmpty})
       /\ ~checks[1].fails /\ checks[2].fails => ReportedIn({ErrorMessages.InvalidSearchType})
       /\ failing = {} => cpc = "fetching"
       /\ failing # {} =>
            /\ ValidationFailed
            /\ \E i \in failing :
                 /\ \A j \in failing : i <= j
                 /\ ReportedIn(checks[i].texts)

\* an answer call with a query, an invalid searchType and an invalid
\* startDate has reported the searchType
C15_Witness ==
  /\ AnswerCalled
  /\ FailingChecks(AnswerChecks(TheCall.query, TheCall.options)) = {2, 5}
  /\ ReportedIn({ErrorMessages.InvalidSearchType})

\* the constructor has just run
Constructed == call # <<>> /\ TheCall.method = "constructor"

\* a key is given: it is neither undefined nor ""
Given(key) == key # <<>> /\ key[1] # ""

\* C16: the constructor uses a non-empty apiKey argument and ignores the
\* environment; without one it uses VALYU_API_KEY; with neither it throws
\* 'VALYU_API_KEY is not set' and there is no client; the x-api-key header of
\* a client is the resolved key, and no operation changes it.
C16_ApiKey ==
  /\ [](Constructed =>
          /\ Given(TheCall.apiKey) =>
               client # <<>> /\ client[1].headers["x-api-key"] = TheCall.apiKey[1]
          /\ ~Given(TheCall.apiKey) /\ Given(TheCall.env) =>
               client # <<>> /\ client[1].headers["x-api-key"] = TheCall.env[1]
          /\ ~Given(TheCall.apiKey) /\ ~Given(TheCall.env) =>
               client = <<>> /\ thrown = ErrorMessages.ApiKeyNotSet)
  /\ [](client # <<>> => thrown = "")
  /\ [][client # <<>> =>
          /\ client' # <<>>
          /\ client'[1].headers["x-api-key"] = client[1].headers["x-api-key"]]_vars

\* the constructor was given a key while the environment held another, and
\* a call has since run with the client
C16_Witness ==
  /\ client # <<>>
  /\ client[1].headers["x-api-key"] = "k1"
  /\ cpc = "settled"

\* the deepresearch.create call, once it has validated its arguments
CreateCalled ==
  call # <<>> /\ TheCall.method = "deepresearch.create" /\ cpc # "idle"

\* C17: deepresearch.create sends mode = options.mode if given, else
\* options.model, else 'fast'; output_formats = the supplied list, else
\* ['markdown']; code_execution = true unless codeExecution is false; and as
\* query options.query when present, else options.input; a call whose query
\* and input are both missing or blank is rejected with 'query is required
\* and cannot be empty'.
C17_CreateDefaults ==
  CreateCalled =>
    LET o == TheCall.options
    IN /\ sent # <<>> =>
            LET payload == sent[1].payload
            IN /\ payload.mode = IF o.mode # <<>> THEN o.mode[1]
                                 ELSE IF o.model # <<>> THEN o.model[1]
                                 ELSE "fast"
               /\ payload.output_formats = IF o.outputFormats # <<>>
                                             THEN o.outputFormats[1]
                                             ELSE <<"markdown">>
               /\ payload.code_execution = (o.codeExecution # <<FALSE>>)
               /\ payload.query = IF o.query # <<>> THEN o.query[1]
                                  ELSE o.input[1]
       /\ /\ o.query = <<>> \/ BlankQuery(o.query[1])
          /\ o.input = <<>> \/ BlankQuery(o.input[1])
          => /\ ValidationFailed
             /\ sent = <<>>
             /\ Value.success = <<FALSE>>
             /\ Value.error = <<Message(ErrorMessages.QueryRequired)>>

\* deepresearch.create was called with a query, a mode and another model,
\* and has sent the mode
C17_Witness ==
  /\ CreateCalled
  /\ sent # <<>>
  /\ TheCall.options.mode = <<"standard">>
  /\ TheCall.options.model = <<"fast">>
  /\ sent[1].payload.mode = "standard"

\* a search or an answer call, once it has validated its arguments and
\* before its request has ended
SourcesChecked ==
  /\ call # <<>>
  /\ TheCall.method \in {"search", "answer"}
  /\ ValidationFailed \/ cpc \in {"awaiting", "fetching"}

\* the error the call has reported
Reported ==
  IF TheCall.method = "answer" /\ Truthy(TheCall.options.streaming)
    THEN chunks[1].error
    ELSE Value.error[1]

\* the lists of sources the caller supplied: included, excluded
IncludedOf(c) == c.options.includedSources
ExcludedOf(c) ==
  IF c.method = "search" THEN c.options.excludeSources
  ELSE c.options.excludedSources

\* the first list of sources the call checks that holds a rejected source
IncludedText == ErrorMessages.InvalidIncludedSources
ExcludedText(c) ==
  IF c.method = "search" THEN ErrorMessages.InvalidExcludeSources ELSE ErrorMessages.InvalidExcludedSources

\* the sources of the inputs that are a parseable URL, a domain of labels
\* of letters, digits and inner hyphens with an optional non-empty path, or
\* provider/dataset with both parts made of letters, digits, '_' and '-'
AcceptedSources ==
  {<<"h", "t", "t", "p", "s", ":", "/", "/", "a", ".", "i", "o">>, <<"x", ":", "y">>, <<"a", ".", "i", "o">>, <<"a", "-", "b", ".", "i", "o", "/", "p">>, <<"v", "/", "d", "_", "1">>}

NotAccepted(source) == source \notin AcceptedSources

\* a dataset identifier with exactly one slash and non-empty parts
OneSlashNonEmptyParts(source) ==
  LET parts == SplitOn(source, "/")
  IN Len(parts) = 2 /\ parts[1] # <<>> /\ parts[2] # <<>>

\* the sources that are none of: a parseable URL, a domain with optional
\* path, provider/dataset with exactly one slash and non-empty parts
NotAcceptedAnyChars(source) ==
  ~(validateUrl(source) \/ validateDomain(source)
      \/ OneSlashNonEmptyParts(source))

\* what the call reports of its lists of sources, given the rejected
\* sources of each list
SourcesReported(rejectedIncluded, rejectedExcluded) ==
  /\ ValidationFailed /\ Reported.text = IncludedText =>
       /\ rejectedIncluded # <<>>
       /\ Reported.sources = Join(rejectedIncluded)
  /\ ValidationFailed /\ Reported.text = ExcludedText(TheCall) =>
       /\ rejectedIncluded = <<>>
       /\ rejectedExcluded # <<>>
       /\ Reported.sources = Join(rejectedExcluded)
  /\ rejectedIncluded # <<>> \/ rejectedExcluded # <<>> =>
       /\ ValidationFailed
       /\ sent = <<>>
  /\ rejectedIncluded = <<>> /\ rejectedExcluded = <<>> =>
       ~(/\ ValidationFailed
         /\ Reported.text \in {IncludedText, ExcludedText(TheCall)})

ListOf(opt) == IF opt = <<>> THEN <<>> ELSE opt[1]

ErrorChunks == Cardinality({i \in 1..Len(chunks) : chunks[i].type = "error"})

\* the streaming answer call has failed: in its validation, with an error
\* status, without a body, or while reading
StreamFailedIn ==
  /\ mode = "stream"
  /\ cpc = "settled"
  /\ call # <<>>
  /\ TheCall.method = "answer"

\* C19: in streaming mode answer reports every failure as a chunk and never
\* throws: a validation error, an HTTP error status, a missing response body
\* and an exception during reading each end the stream with exactly one
\* chunk of type 'error'; an 'error' chunk is always the last chunk; and a
\* validation error yields that one chunk and nothing else.
C19_StreamErrors ==
  mode = "stream" /\ call # <<>> /\ TheCall.method = "answer" =>
    /\ thrown = ""
    /\ \A i \in 1..Len(chunks) : chunks[i].type = "error" => i = Len(chunks)
    /\ StreamFailedIn =>
         /\ apc = "done"
         /\ ErrorChunks = 1
         /\ chunks[Len(chunks)].type = "error"
    /\ StreamFailedIn /\ outcome = <<>> => Len(chunks) = 1

\* a streaming answer has yielded a chunk and then failed while reading
C19_Witness ==
  /\ StreamFailedIn
  /\ outcome # <<>>
  /\ outcome[1].kind = "body"
  /\ Len(chunks) = 2
  /\ chunks[1].type # "error"
  /\ chunks[2].type = "error"

\* the request of a search call
SearchSent == call # <<>> /\ TheCall.method = "search" /\ sent # <<>>

\* C20: every request of search is well-formed: its search_type is one of
\* 'all', 'web', 'proprietary', 'news' ('all' when the caller gave none, the
\* lower-cased value when the caller gave a valid one), its max_num_results
\* is between 1 and 100 (10 when the caller gave none), and an optional field
\* is present if and only if the caller supplied it.
C20_WellFormedRequest ==
  SearchSent =>
    LET o == TheCall.options
        payload == sent[1].payload
    IN /\ payload.search_type \in {All, Web, Proprietary, News}
       /\ o.searchType = <<>> => payload.search_type = All
       /\ o.searchType # <<>> =>
            payload.search_type = ToLowerCase(o.searchType[1])
       /\ ~payload.max_num_results.nan
       /\ payload.max_num_results.n \in MinNumResults..MaxNumResults
       /\ o.maxNumResults = <<>> =>
            payload.max_num_results = Num(DefaultMaxNumResults)
       /\ (payload.max_price # <<>>) = (o.maxPrice # <<>>)
       /\ (payload.included_sources # <<>>) = (o.includedSources # <<>>)
       /\ (payload.exclude_sources # <<>>) = (o.excludeSources # <<>>)
       /\ (payload.category # <<>>) = (o.category # <<>>)
       /\ (payload.start_date # <<>>) = (o.startDate # <<>>)
       /\ (payload.end_date # <<>>) = (o.endDate # <<>>)
       /\ (payload.country_code # <<>>) = (o.countryCode # <<>>)
       /\ (payload.response_length # <<>>) = (o.responseLength # <<>>)
       /\ (payload.fast_mode # <<>>) = (o.fastMode # <<>>)
       /\ (payload.url_only # <<>>) = (o.urlOnly # <<>>)

\* the batch.addTasks call, once it has validated its arguments
AddTasksCalled ==
  call # <<>> /\ TheCall.method = "batch.addTasks" /\ cpc # "idle"

\* the field holds a non-empty text
HasText(opt) == opt # <<>> /\ opt[1] # ""

\* the query of a task: its query, or its input when the query is not
\* usable
UsableQuery(task) == IF HasText(task.query) THEN task.query ELSE task.input

\* C21: every request of batch.addTasks carries between 1 and 100 tasks in
\* the caller's order, each with a non-empty query taken from query, or
\* from input when query is not usable; a call with an empty or over-100
\* list, or with a task lacking a query, is rejected without a request.
C21_TasksHaveQuery ==
  AddTasksCalled =>
    LET tasks == TheCall.tasks
    IN /\ sent # <<>> =>
            LET payload == sent[1].payload.tasks
            IN /\ Len(payload) \in 1..MaxTasksPerRequest
               /\ Len(payload) = Len(tasks)
               /\ \A i \in 1..Len(payload) :
                    /\ HasText(payload[i].query)
                    /\ payload[i].query = UsableQuery(tasks[i])
       /\ \/ Len(tasks) = 0
          \/ Len(tasks) > MaxTasksPerRequest
          \/ \E i \in 1..Len(tasks) :
               ~HasText(tasks[i].query) /\ ~HasText(tasks[i].input)
          => /\ ValidationFailed
             /\ sent = <<>>
             /\ Value.success = <<FALSE>>

\* the request of a deepresearch.getAssets call
AssetsRequested ==
  call # <<>> /\ TheCall.method = "deepresearch.getAssets" /\ sent # <<>>

\* the request carries the token as a query parameter
CarriesToken(request, token) ==
  /\ Len(request.url) = 5
  /\ request.url[4] = "token="
  /\ request.url[5] = token

\* the request carries no query parameter
CarriesNoToken(request) == Len(request.url) = 2

\* the request carries the API key of the client
CarriesApiKey(request) ==
  /\ "x-api-key" \in DOMAIN request.headers
  /\ request.headers["x-api-key"] = client[1].headers["x-api-key"]

\* C22: deepresearch.getAssets sends exactly one credential: with a token
\* the request carries the token as a query parameter and no x-api-key
\* header, without one (or with an empty one) the x-api-key header and no
\* token parameter; the API key is never sent together with a token.
C22_OneCredential ==
  AssetsRequested =>
    LET token == TheCall.token
        request == sent[1]
    IN /\ HasText(token) =>
            /\ CarriesToken(request, token[1])
            /\ "x-api-key" \notin DOMAIN request.headers
       /\ ~HasText(token) =>
            /\ CarriesNoToken(request)
            /\ CarriesApiKey(request)
       /\ ~("x-api-key" \in DOMAIN request.headers /\ ~CarriesNoToken(request))

\* deepresearch.getAssets was called with a token and its request has been
\* answered
C22_Witness ==
  /\ AssetsRequested
  /\ TheCall.token = <<"tok">>
  /\ CarriesToken(sent[1], "tok")
  /\ cpc = "settled"

\* the message a failed poll rejects with: the error of the poll, and for a
\* batch poll without one 'Failed to get batch status'
PollMessage ==
  IF op = "batchWait" /\ status[1].error = "" THEN BatchStatusFailed
  ELSE status[1].error

\* C23: a wait call does not retry a failed status request: in
\* deepresearch.wait and batch.waitForCompletion the first poll whose status
\* request fails (for a batch: or returns no batch) makes the call reject at
\* once with the error message of that poll, with no further status request,
\* no sleep and no onProgress call for that poll, even when earlier polls
\* succeeded and maxWaitTime has not elapsed.
C23_NoRetry ==
  /\ [](IsWait /\ AfterPoll /\ PollFailed =>
          /\ pc = "rejected"
          /\ error = PollMessage
          /\ iter = <<Ev("request"), Ev("throw")>>
          /\ Sleeps(iter) = <<>>
          /\ Callbacks(iter) = <<>>)
  /\ [][IsWait /\ pc = "rejected" => UNCHANGED <<pc, polls, iter, error>>]_vars

\* a batch wait with an onProgress callback whose second poll returned no
\* batch, before maxWaitTime had elapsed
C23_Witness ==
  /\ op = "batchWait"
  /\ options.onProgress
  /\ pc = "rejected"
  /\ polls >= 2
  /\ status[1].success
  /\ status[1].batch = <<>>
  /\ elapsed <= maxWaitTime

\* the last poll reported a terminal status
PollTerminal ==
  status # <<>> /\ ~PollFailed /\ Polled.status \in TerminalOf(op)

\* C27: in deepresearch.wait and batch.waitForCompletion a terminal status
\* takes precedence over the timeout and at least one poll is always made:
\* every call issues a status request before anything else whatever
\* maxWaitTime is, a poll that returns a terminal status makes the call
\* resolve with it even when more than maxWaitTime has elapsed, and the
\* timeout is examined only after a non-terminal poll.
C27_TerminalBeforeTimeout ==
  /\ [](IsWait =>
          /\ polls >= 1
          /\ Ended => status # <<>>
          /\ AfterPoll /\ PollTerminal => pc = "resolved" /\ result = <<Polled>>
          /\ pc = "rejected" /\ error = MaxWaitExceeded => PollNonTerminal)
  /\ [][pc = "idle" /\ IsWait' => pc' = "request" /\ polls' = 1]_vars

\* a wait call that resolved with the terminal status of a poll made after
\* more than maxWaitTime had elapsed
C27_Witness ==
  /\ IsWait
  /\ pc = "resolved"
  /\ elapsed > maxWaitTime
  /\ result = <<Polled>>

\* the metadata lines fetchAnswer received: the data lines with a success
\* field that are neither search-results lines nor content lines
MetadataLines == SelectSeq(ReceivedDocs(body), IsMetadataDoc)

UnknownError == "Unknown error occurred"

\* C24: non-streaming answer succeeds if and only if the stream delivered
\* final metadata reporting success: the result has success = true exactly
\* when the last metadata line received has a truthy success; if the stream
\* ends without a metadata line the result is success = false with the error
\* 'Unknown error occurred', and after a metadata line without success with
\* the error of the metadata (or that text), even when content tokens were
\* received.
C24_SuccessFromMetadata ==
  mode = "fetch" /\ apc = "done" =>
    \E metas \in {MetadataLines} :
      /\ answer[1].success
           <=> metas # <<>> /\ metas[Len(metas)].success = <<TRUE>>
      /\ metas = <<>> =>
           ~answer[1].success /\ answer[1].error = UnknownError
      /\ metas # <<>> /\ metas[Len(metas)].success # <<TRUE>> =>
           /\ ~answer[1].success
           /\ answer[1].error = IF metas[Len(metas)].error # ""
                                  THEN metas[Len(metas)].error
                                  ELSE UnknownError

\* a stream that delivered a content token and ended without metadata
C24_Witness ==
  /\ mode = "fetch"
  /\ apc = "done"
  /\ fullContent # <<>>
  /\ MetadataLines = <<>>
  /\ ~answer[1].success
  /\ answer[1].error = UnknownError

\* the chunks of a type
ChunksOf(type) == SelectSeq(chunks, LAMBDA c : c.type = type)

\* the search results of the search_results chunks, in order
RECURSIVE FoldResults(_)
FoldResults(list) ==
  IF list = <<>> THEN <<>>
  ELSE Head(list).search_results[1] \o FoldResults(Tail(list))

\* the content of the content chunks, in order
RECURSIVE FoldContent(_)
FoldContent(list) ==
  IF list = <<>> THEN <<>> ELSE Head(list).content \o FoldContent(Tail(list))

\* what the non-streaming path holds at the end of the same body
FetchedFrom(bytes) ==
  FetchLines(FetchState(<<>>, <<>>, EmptyDoc),
             TerminatedLines(Characters(bytes), <<>>))

\* C25: the streaming and the non-streaming path classify every data line
\* the same way: the non-streaming path treats a line as search results, as
\* content or as final metadata exactly when the streaming path yields a
\* 'search_results', a 'content' (with non-empty content) or a 'metadata'
\* chunk for it, so that folding the chunks of a stream gives the search
\* results, the content and the final metadata the non-streaming path holds.
C25_SameClassification ==
  mode = "stream" /\ apc = "done" =>
    \E f \in {FetchedFrom(body)} :
      \E metas \in {ChunksOf("metadata")} :
        /\ FoldResults(ChunksOf("search_results")) = f.searchResults
        /\ FoldContent(ChunksOf("content")) = f.fullContent
        /\ metas = <<>> <=> f.finalMetadata = EmptyDoc
        /\ metas # <<>> =>
             /\ metas[Len(metas)].search_results
                  = f.finalMetadata.search_results
             /\ metas[Len(metas)].contents = f.finalMetadata.contents

\* C26: only newline-terminated lines are processed: when the body ends the
\* text after the last newline is discarded, with no chunk in streaming mode
\* and nothing in the non-streaming result; every newline-terminated data
\* line is processed exactly once, in order, and a line that is no data line
\* or whose payload is not JSON is skipped without ending the stream.
C26_TerminatedLinesOnly ==
  apc = "done" =>
    \E lines \in {TerminatedLines(Characters(body), <<>>)} :
      /\ mode = "stream" =>
           /\ chunks = StreamLines(lines)
           /\ Len(chunks) <= Len(lines)
      /\ mode = "fetch" =>
           answer = <<BuildResponse(FetchLines(FetchState(<<>>, <<>>, EmptyDoc),
                                               lines))>>

\* a stream whose body held a line that is not JSON, then a content line,
\* then a metadata line without its newline: one chunk, of the content
C26_Witness ==
  /\ mode = "stream"
  /\ apc = "done"
  /\ body = Data(<<"M">>) \o <<NL>> \o Data(<<"C", "a", "}">>) \o <<NL>>
              \o Data(<<"M", "}">>)
  /\ Len(chunks) = 1
  /\ chunks[1].type = "content"

====
